---- MODULE Spec2Model ----
(***************************************************************************)
(* Consumer runtime of bulker: the retry consumer's batch function, the    *)
(* batch consumer's pause/resume state machine, the stream consumer's      *)
(* message loop with its hot swap, and the retry pipeline that binds them. *)
(***************************************************************************)
EXTENDS Integers, Sequences, FiniteSets, TLC

\* ------------------------------------------------------------------ bounds

\* config.MessagesRetryCount: attempts before a message is dead-lettered
MessagesRetryCount == 2
\* the retryBatchSize that ConsumeAll passes to the batch function
RetryBatchSize == 2
\* messages other producers put on the retry topic
MaxEnqueued == 2
\* a batch is started while the committed offset is below MaxOffset
MaxOffset == 3
\* the clock runs 0..MaxTime
MaxTime == 2

\* ------------------------------------------------------------------ values

PrimaryTopic == "primary"
RetryTopic == "retry"
DeadTopic == "dead"
TopicNames == {PrimaryTopic, RetryTopic, DeadTopic}

retryTimeHeader == "retry_time"
retriesCountHeader == "retries"
originalTopicHeader == "original_topic"

\* a nil *kafka.TopicPartition
NoOffset == 0 - 1

\* ----------------------------------------------------- header conversions

Digits == <<"0", "1", "2", "3", "4", "5", "6", "7", "8", "9">>

\* strconv.Itoa on the small non-negative numbers the model reaches
Itoa(n) == Digits[n + 1]

\* strconv.Atoi: the decimal strings, with or without a leading zero, parse;
\* anything else is an error
PaddedDigits == <<"00", "01", "02", "03", "04", "05", "06", "07", "08", "09">>

Atoi(s) ==
    IF \E n \in 0..9 : Digits[n + 1] = s
    THEN [err |-> FALSE, val |-> CHOOSE n \in 0..9 : Digits[n + 1] = s]
    ELSE IF \E n \in 0..9 : PaddedDigits[n + 1] = s
    THEN [err |-> FALSE, val |-> CHOOSE n \in 0..9 : PaddedDigits[n + 1] = s]
    ELSE [err |-> TRUE, val |-> 0]

\* timestamp.ToISOFormat: the one spelling the program writes for an instant
IsoCanonical ==
    <<"T0Z", "T1Z", "T2Z", "T3Z", "T4Z", "T5Z", "T6Z", "T7Z", "T8Z", "T9Z", 
      "T10Z", "T11Z", "T12Z", "T13Z", "T14Z", "T15Z", "T16Z", "T17Z", "T18Z", "T19Z">>

\* another spelling of the same instants that the parser accepts
IsoOther ==
    <<"T0.0Z", "T1.0Z", "T2.0Z", "T3.0Z", "T4.0Z", "T5.0Z", "T6.0Z", "T7.0Z", "T8.0Z", "T9.0Z", 
      "T10.0Z", "T11.0Z", "T12.0Z", "T13.0Z", "T14.0Z", "T15.0Z", "T16.0Z", "T17.0Z", "T18.0Z", "T19.0Z">>

ToISOFormat(t) == IsoCanonical[t + 1]

\* timestamp.ParseISOFormat: [err, zero, t]
ParseISOFormat(s) ==
    IF \E k \in DOMAIN IsoCanonical : IsoCanonical[k] = s
    THEN [err |-> FALSE, zero |-> FALSE,
          t |-> (CHOOSE k \in DOMAIN IsoCanonical : IsoCanonical[k] = s) - 1]
    ELSE IF \E k \in DOMAIN IsoOther : IsoOther[k] = s
    THEN [err |-> FALSE, zero |-> FALSE,
          t |-> (CHOOSE k \in DOMAIN IsoOther : IsoOther[k] = s) - 1]
    ELSE [err |-> TRUE, zero |-> TRUE, t |-> 0]

\* ------------------------------------------------------------ kafka headers

\* a message: its payload (value) and its headers, a map from key to string
Msg(value, headers) == [value |-> value, headers |-> headers]

GetKafkaHeader(message, key) ==
    IF key \in DOMAIN message.headers THEN message.headers[key] ELSE ""

GetKafkaIntHeader(message, key) ==
    LET v == GetKafkaHeader(message, key)
    IN IF v # "" THEN Atoi(v) ELSE [err |-> FALSE, val |-> 0]

GetKafkaTimeHeader(message, key) ==
    LET v == GetKafkaHeader(message, key)
    IN IF v # "" THEN ParseISOFormat(v) ELSE [err |-> FALSE, zero |-> TRUE, t |-> 0]

\* ---------------------------------------------------------- BatchCounters

CounterFields == {"consumed", "skipped", "processed", "notReadyReadded",
                  "retryScheduled", "deadLettered", "failed"}

ZeroCounters == [f \in CounterFields |-> 0]

\* accumulate sums every field but failed
AccumulatedFields == CounterFields \ {"failed"}

accumulate(bs, batchStats) ==
    [f \in CounterFields |->
        IF f \in AccumulatedFields THEN bs[f] + batchStats[f] ELSE bs[f]]

\* ------------------------------------------------- retry classification

\* time.Now().After(retryTime) is strict
isTimeToRetry(message, clock) ==
    LET retryTime == GetKafkaTimeHeader(message, retryTimeHeader)
    IN IF retryTime.err THEN TRUE
       ELSE retryTime.zero \/ clock > retryTime.t

\* the cutoff, were it to leave one attempt more
NoAttemptsLeftStrict(retries) == retries > MessagesRetryCount

\* line 94
NoAttemptsLeft(retries) == retries >= MessagesRetryCount

\* the retry_time header, were the parsed time written back
ReformattedRetryTime(message) ==
    LET retryTime == GetKafkaTimeHeader(message, retryTimeHeader)
    IN IF retryTime.err \/ retryTime.zero THEN GetKafkaHeader(message, retryTimeHeader)
       ELSE ToISOFormat(retryTime.t)

\* line 102: the retry_time header of a requeued message
RequeuedRetryTime(message) == GetKafkaHeader(message, retryTimeHeader)

\* where the message's retry_time stands when the clock shows `clock`
Deadline(message, clock) ==
    LET retryTime == GetKafkaTimeHeader(message, retryTimeHeader)
    IN IF retryTime.err THEN "unparseable"
       ELSE IF retryTime.zero THEN "unset"
       ELSE IF retryTime.t < clock THEN "past"
       ELSE IF retryTime.t = clock THEN "now"
       ELSE "future"

\* the retries count, were it not incremented
SameRetries(retries) == retries

\* line 104: retries++
NextRetries(retries) == retries + 1

\* lines 78-108 of processBatchImpl: what becomes of one consumed message
Classify(message, clock) ==
    LET originalTopic == GetKafkaHeader(message, originalTopicHeader)
        r == GetKafkaIntHeader(message, retriesCountHeader)
        base(n) == (originalTopicHeader :> originalTopic) @@ (retriesCountHeader :> Itoa(n))
    IN IF originalTopic = "" THEN [kind |-> "skipped"]
       ELSE IF r.err THEN [kind |-> "skipped"]
       ELSE IF NoAttemptsLeft(r.val)
       THEN [kind |-> "deadLettered", topic |-> DeadTopic, headers |-> base(r.val)]
       ELSE IF ~isTimeToRetry(message, clock)
       THEN [kind |-> "notReadyReadded", topic |-> RetryTopic,
             headers |-> (retryTimeHeader :> RequeuedRetryTime(message)) @@ base(r.val)]
       ELSE [kind |-> "retryScheduled", topic |-> originalTopic, headers |-> base(NextRetries(r.val))]

\* ------------------------------------------------------------------ state

VARIABLES
    topics,         \* topic -> the committed messages, offset k at index k+1
    position,       \* the retry consumer's fetch position on the retry topic
    committed,      \* the consumer group's committed offset on the retry topic
    tx,             \* the transactional producer: [state, produced, offsets]
    now,            \* the clock
    retired,        \* AbstractBatchConsumer.retired
    retryBatchSize, \* the retryBatchSize ConsumeAll resolved
    fn,             \* the frame of processBatchImpl
    run,            \* the frame of ConsumeAll: [batchNumber, counters]
    hist            \* history of the retry consumer, read by the properties only

VARIABLES
    paused,         \* AbstractBatchConsumer.paused
    idle,           \* AbstractBatchConsumer.idle
    closed,         \* how often close() called Close on the kafka consumer
    consumer,       \* the kafka consumer: [assigned, paused]
    heartbeat,      \* the position of the goroutine pause() starts
    job,            \* the frame of ConsumeAll: [pc, resumeErr]
    leases,         \* leases of the destination that are not released
    bcHist          \* history of the batch consumer, read by the properties only

VARIABLES
    stream,         \* StreamConsumer.stream: the sink the atomic pointer names
    sinks,          \* sink -> [completed, aborted, consumed]
    destination,    \* StreamConsumer.destination
    destLeases,     \* destination -> its leases that are not released
    scClosed,       \* StreamConsumer.closed is closed
    streamPosition, \* the stream consumer's fetch position on the primary topic
    loop,           \* the frame of the goroutine start() runs
    update,         \* the frame of UpdateDestination
    scHist          \* history of the stream consumer, read by the properties only

VARIABLES
    ctor            \* the frame of NewAbstractBatchConsumer and what it has made

VARIABLES
    bags,           \* the StreamOptions: bag -> [valuesMap, Options]
    heap,           \* the utils.Set[string] values: address -> set
    parsed          \* what the last ParseOption was given and returned

VARIABLES
    sizes,          \* ConsumeAll's batch sizes: the options, the configuration
                    \* and the sizes resolved from them
    totals          \* a BatchCounters that accumulates batch results

\* the retry consumer's state apart from the topics
retryOnlyVars == <<position, committed, tx, now, retryBatchSize, fn, run, hist>>

batchVars == <<topics, retryOnlyVars>>

retryVars == <<batchVars, retired>>

pauseVars == <<paused, idle, closed, consumer, heartbeat, job, leases, bcHist>>

streamVars == <<stream, sinks, destination, destLeases, scClosed, streamPosition,
                loop, update, scHist>>

ctorVars == <<ctor>>

optionVars == <<bags, heap, parsed>>

sizeVars == <<sizes, totals>>

vars == <<retryVars, pauseVars, streamVars, ctorVars, optionVars, sizeVars>>

\* ------------------------------------------------- transactional producer

NoTransaction == [state |-> "none", produced |-> <<>>, offsets |-> NoOffset]

BeginTransaction(t) == [state |-> "open", produced |-> <<>>, offsets |-> NoOffset]

Produce(t, record) == [t EXCEPT !.produced = Append(@, record)]

SendOffsetsToTransaction(t, offset) == [t EXCEPT !.offsets = offset]

AbortTransaction(t) == NoTransaction

RECURSIVE AppendAll(_, _)
\* the log of every topic after the records are appended in order
AppendAll(logs, records) ==
    IF records = <<>> THEN logs
    ELSE LET rec == Head(records)
         IN AppendAll([logs EXCEPT ![rec.topic] = Append(@, rec.msg)], Tail(records))

\* the logs once the transaction commits: all its records, atomically
CommittedLogs(logs, t) == AppendAll(logs, t.produced)

\* the group offset once the transaction commits
CommittedOffset(old, t) == IF t.offsets = NoOffset THEN old ELSE t.offsets

\* what the history keeps of committed records: the consumed offset, the
\* topic and the message
Delivery(records) ==
    {[src |-> records[k].src, topic |-> records[k].topic, msg |-> records[k].msg] :
       k \in 1..Len(records)}

\* --------------------------------------------------------- retry consumer

\* the calls of the transactional producer (and of the group metadata it
\* needs) that may fail
ProducerFaults == {"begin", "produce", "metadata", "sendOffsets", "commit"}

\* what may go wrong in a batch: a read that times out although a message is
\* there, a failed watermark query, a failed read, a failed producer call
Faults == {"timeout", "watermark", "read"} \cup ProducerFaults

\* ConsumeAll's frame outside a run
NoRun == [batchNumber |-> 0, counters |-> ZeroCounters]

IdleFrame ==
    [pc |-> "idle", i |-> 0, highOffset |-> 0, firstPosition |-> NoOffset,
     lastPosition |-> NoOffset, txOpened |-> FALSE, counters |-> ZeroCounters,
     nextBatch |-> FALSE, err |-> "nil"]

\* the cleanup, were it not to seek
NoSeekBack(frame, e, pos) == pos

\* the offset the deferred cleanup seeks to (lines 36-38); pos when it does not seek
SeekBack(frame, e, pos) ==
    IF e # "nil" /\ frame.firstPosition # NoOffset THEN frame.firstPosition ELSE pos

\* the transaction after the deferred cleanup (lines 39-41)
Cleanup(frame, e, t) ==
    IF e # "nil" /\ frame.txOpened THEN AbortTransaction(t) ELSE t

\* the frame once the function has returned (c, nb, e) through the deferred
\* function (lines 33-44)
Returned(frame, c, nb, e) ==
    [frame EXCEPT !.pc = "returned", !.counters = c, !.err = e,
                  !.nextBatch = IF e # "nil" THEN FALSE ELSE nb]

\* line 52: the last consumed message is the one below the high watermark
AtWatermark(frame) ==
    frame.lastPosition # NoOffset /\ frame.lastPosition = frame.highOffset - 1

\* the offset, were it the last consumed message's own
LastOffset(frame) == frame.lastPosition

\* the offset sent to the transaction (lines 128-129)
NextOffset(frame) == frame.lastPosition + 1

\* line 118 and the two `continue`s before it: the counters after one message
CountMessage(counted, kind) ==
    IF kind = "skipped" THEN counted
    ELSE accumulate(counted, [ZeroCounters EXCEPT ![kind] = 1])

\* RunJob / ConsumeAll lines 188-196, as far as the batch function sees them
RetryRunStart ==
    /\ fn.pc = "idle"
    /\ ~retired
    /\ fn' = [fn EXCEPT !.pc = "call"]
    /\ run' = [batchNumber |-> 1, counters |-> ZeroCounters]
    /\ UNCHANGED <<topics, position, committed, tx, now, retired, retryBatchSize, hist>>
    /\ UNCHANGED <<pauseVars, streamVars, ctorVars, optionVars, sizeVars>>

\* ConsumeAll lines 239-243 and processBatchImpl lines 28-47
RetryBatchCall(F) ==
    /\ fn.pc = "call"
    /\ IF retired
       THEN /\ fn' = IdleFrame
            /\ run' = NoRun
            /\ hist' = [hist EXCEPT !.runSkippedSeen = 0]
       ELSE /\ \E failed \in {f \in {FALSE, TRUE} : f => "watermark" \in F} :
                 fn' = [IdleFrame EXCEPT
                          !.pc = "loop", !.nextBatch = TRUE,
                          !.highOffset = IF failed THEN 0 ELSE Len(topics[RetryTopic]),
                          !.err = IF failed THEN "watermark" ELSE "nil"]
            /\ hist' = [hist EXCEPT !.committedAtStart = committed, !.produced = {}]
            /\ UNCHANGED run
    /\ UNCHANGED <<topics, position, committed, tx, now, retired, retryBatchSize>>
    /\ UNCHANGED <<pauseVars, streamVars, ctorVars, optionVars, sizeVars>>

\* the same, as long as the committed offset is below MaxOffset
BoundedBatchCall(F) ==
    /\ retired \/ committed < MaxOffset
    /\ RetryBatchCall(F)

\* one iteration of the loop, lines 48-120
RetryBatchIteration(F) ==
    /\ fn.pc = "loop"
    /\ \/ /\ fn.i >= retryBatchSize
          /\ fn' = [fn EXCEPT !.pc = "finish"]
          /\ UNCHANGED <<position, tx, hist>>
       \/ /\ fn.i < retryBatchSize
          /\ retired
          /\ fn' = Returned(fn, fn.counters, fn.nextBatch, fn.err)
          /\ position' = SeekBack(fn, fn.err, position)
          /\ tx' = Cleanup(fn, fn.err, tx)
          /\ UNCHANGED hist
       \/ /\ fn.i < retryBatchSize
          /\ ~retired
          /\ AtWatermark(fn)
          /\ fn' = [fn EXCEPT !.pc = "finish", !.nextBatch = FALSE]
          /\ UNCHANGED <<position, tx, hist>>
       \/ /\ fn.i < retryBatchSize
          /\ ~retired
          /\ ~AtWatermark(fn)
          /\ \/ /\ position >= Len(topics[RetryTopic]) \/ "timeout" \in F
                /\ fn' = [fn EXCEPT !.pc = "finish", !.nextBatch = FALSE]
                /\ UNCHANGED <<position, tx, hist>>
             \/ /\ "read" \in F
                /\ fn' = Returned(fn, ZeroCounters, FALSE, "read")
                /\ position' = SeekBack(fn, "read", position)
                /\ tx' = Cleanup(fn, "read", tx)
                /\ UNCHANGED hist
             \/ /\ position < Len(topics[RetryTopic])
                /\ LET message == topics[RetryTopic][position + 1]
                       n == fn.counters.consumed + 1
                       counted == [fn.counters EXCEPT !.consumed = n]
                       read == [fn EXCEPT !.counters = counted, !.lastPosition = position,
                                          !.firstPosition = IF n = 1 THEN position ELSE @]
                       opened == [read EXCEPT !.txOpened = TRUE]
                       t == IF n = 1 THEN BeginTransaction(tx) ELSE tx
                       c == Classify(message, now)
                   IN \/ /\ n = 1
                         /\ "begin" \in F
                         /\ fn' = Returned(read, ZeroCounters, FALSE, "begin")
                         /\ position' = SeekBack(read, "begin", position + 1)
                         /\ tx' = Cleanup(read, "begin", tx)
                         /\ UNCHANGED hist
                      \/ /\ c.kind = "skipped"
                         /\ fn' = [opened EXCEPT !.i = @ + 1,
                                                 !.counters = CountMessage(counted, c.kind)]
                         /\ position' = position + 1
                         /\ tx' = t
                         /\ hist' = [hist EXCEPT !.skippedSeen = @ + 1,
                                                 !.runSkippedSeen = @ + 1]
                      \/ /\ c.kind # "skipped"
                         /\ fn' = [opened EXCEPT !.i = @ + 1,
                                                 !.counters = CountMessage(counted, c.kind)]
                         /\ position' = position + 1
                         /\ LET record == [src |-> position,
                                            deadline |-> Deadline(message, now),
                                            kind |-> c.kind, topic |-> c.topic,
                                            msg |-> Msg(message.value, c.headers)]
                            IN /\ tx' = Produce(t, record)
                               /\ hist' = [hist EXCEPT !.produced = @ \cup {record}]
                      \/ /\ c.kind # "skipped"
                         /\ "produce" \in F
                         /\ fn' = Returned(opened, counted, FALSE, "produce")
                         /\ position' = SeekBack(opened, "produce", position + 1)
                         /\ tx' = Cleanup(opened, "produce", t)
                         /\ UNCHANGED hist
    /\ UNCHANGED <<topics, committed, now, retired, retryBatchSize, run>>
    /\ UNCHANGED <<pauseVars, streamVars, ctorVars, optionVars, sizeVars>>

\* lines 121-139: the offsets are sent to the transaction and it commits
RetryBatchFinish(F) ==
    /\ fn.pc = "finish"
    /\ \/ /\ ~fn.txOpened
          /\ fn' = Returned(fn, fn.counters, fn.nextBatch, fn.err)
          /\ position' = SeekBack(fn, fn.err, position)
          /\ tx' = Cleanup(fn, fn.err, tx)
          /\ UNCHANGED <<topics, committed, hist>>
       \/ /\ fn.txOpened
          /\ \E e \in {"metadata", "sendOffsets", "commit"} \cap F :
               /\ fn' = Returned(fn, ZeroCounters, FALSE, e)
               /\ position' = SeekBack(fn, e, position)
               /\ tx' = Cleanup(fn, e, tx)
          /\ UNCHANGED <<topics, committed, hist>>
       \/ /\ fn.txOpened
          /\ LET t == SendOffsetsToTransaction(tx, NextOffset(fn))
             IN /\ topics' = CommittedLogs(topics, t)
                /\ committed' = CommittedOffset(committed, t)
                /\ hist' = [hist EXCEPT !.delivered = @ \cup Delivery(t.produced)]
          /\ tx' = NoTransaction
          /\ fn' = Returned(fn, fn.counters, fn.nextBatch, "nil")
          /\ UNCHANGED position
    /\ UNCHANGED <<now, retired, retryBatchSize, run>>
    /\ UNCHANGED <<pauseVars, streamVars, ctorVars, optionVars, sizeVars>>

\* ConsumeAll lines 244-255: the batch's counters are accumulated, and the run
\* ends unless the batch asked for another one. The batch number, which the
\* retry consumer's batch function ignores, is counted up to MaxOffset + 1
RetryBatchDone ==
    /\ fn.pc = "returned"
    /\ IF fn.nextBatch
       THEN /\ run' = [run EXCEPT !.counters = accumulate(@, fn.counters),
                                  !.batchNumber = IF @ <= MaxOffset THEN @ + 1 ELSE @]
            /\ fn' = [IdleFrame EXCEPT !.pc = "call"]
       ELSE /\ run' = NoRun
            /\ fn' = IdleFrame
    /\ hist' = [hist EXCEPT !.committedAtStart = committed, !.skippedSeen = 0,
                            !.produced = {},
                            !.runSkippedSeen = IF fn.nextBatch THEN @ ELSE 0,
                            !.prevFirst = IF fn.err \in ProducerFaults
                                          THEN fn.firstPosition ELSE NoOffset]
    /\ UNCHANGED <<topics, position, committed, tx, now, retired, retryBatchSize>>
    /\ UNCHANGED <<pauseVars, streamVars, ctorVars, optionVars, sizeVars>>

Retire ==
    /\ ~retired
    /\ retired' = TRUE
    /\ UNCHANGED <<batchVars, streamVars, ctorVars, pauseVars, streamVars, ctorVars, optionVars, sizeVars>>

\* ------------------------------------------------------------ environment

\* the instant that retry_time headers name: the clock starts before it and
\* ends after it
RetryTimeInstant == MaxTime - 1

Header(key, value) == key :> value

\* the headers of the messages that arrive on the retry topic: none at all; a
\* malformed retries count; no attempts left and a retry_time; attempts left
\* with a retry_time in the other spelling, with an unparseable one, and with
\* neither retries nor retry_time
RetryInputs ==
    LET ot == Header(originalTopicHeader, PrimaryTopic)
        last == Itoa(MessagesRetryCount)
        canonical == Header(retryTimeHeader, IsoCanonical[RetryTimeInstant + 1])
        other == Header(retryTimeHeader, IsoOther[RetryTimeInstant + 1])
    IN { <<>>,
         ot @@ Header(retriesCountHeader, "x"),
         ot @@ Header(retriesCountHeader, last) @@ canonical,
         ot @@ Header(retriesCountHeader, "01") @@ other,
         ot @@ Header(retriesCountHeader, Itoa(MessagesRetryCount - 1))
            @@ Header(retryTimeHeader, "x"),
         ot }

\* another producer commits a message on the retry topic
Enqueue ==
    /\ hist.enqueued < MaxEnqueued
    /\ \E h \in RetryInputs :
         topics' = [topics EXCEPT ![RetryTopic] = Append(@, Msg(hist.enqueued + 1, h))]
    /\ hist' = [hist EXCEPT !.enqueued = @ + 1]
    /\ UNCHANGED <<position, committed, tx, now, retired, retryBatchSize, fn, run>>
    /\ UNCHANGED <<pauseVars, streamVars, ctorVars, optionVars, sizeVars>>

Tick ==
    /\ now < MaxTime
    /\ now' = now + 1
    /\ UNCHANGED <<topics, position, committed, tx, retired, retryBatchSize, fn, run, hist>>
    /\ UNCHANGED <<pauseVars, streamVars, ctorVars, optionVars, sizeVars>>

\* ------------------------------------------- batch consumer: pause and resume

\* messages the batch function may consume
MaxReads == 2

\* what may go wrong around a run: the destination is gone, Assignment fails,
\* Pause fails, a read of the paused consumer fails and is retriable, or is not
PauseFaults == {"noDestination", "assignment", "pause", "read", "fatal", "seek"}

\* resume: how the run's last call of resume() ended: not called ("none"),
\* returned at line 415 as the consumer was not paused ("skipped"), after the
\* token and Resume ("resumed"), on an Assignment error or on the timeout
IdleJob ==
    [pc |-> "idle", leased |-> FALSE, partitions |-> FALSE, err |-> "nil",
     resume |-> "none"]

\* the kafka clients a consumer makes: the constructor's and the restarts'
MaxClients == 2

\* kafka.NewConsumer and SubscribeTopics: client number n, with no partition
\* assigned yet
NewConsumer(n) == [client |-> n, assigned |-> FALSE, paused |-> FALSE]

\* a restart that does not look at retired
restartAlways(c, isRetired) == NewConsumer(c.client + 1)

\* restartConsumer, lines 336-379: nothing if the consumer is retired, else
\* the old client is closed and a new one is made and subscribed
restartConsumer(c, isRetired) ==
    IF isRetired THEN c ELSE NewConsumer(c.client + 1)

\* nothing read yet. offset is the consumer's fetch position on its partition,
\* whose messages are numbered from 1; handed are the messages the batch
\* function read, slipped the ones the heartbeat loop read
\* channel counts the executions of close(bc.closed): the channel is open
\* while it is 0
NoReads == [consumed |-> 0, offset |-> 0, handed |-> {}, slipped |-> {}, channel |-> 0]

\* close() lines 259-263: the select finds bc.closed open and goes on to close
\* it, or finds it closed and goes on to consumer.Close()
SelectClosed == IF bcHist.channel = 0 THEN "close" ELSE "closeConsumer"

\* pauseKafkaConsumer: the assigned partitions are paused, unless Pause fails
pauseKafkaConsumer(c, failed) ==
    IF c.assigned /\ ~failed THEN [c EXCEPT !.paused = TRUE] ELSE c

\* a ConsumeAll that does not look at retired
ConsumeAllStartUnchecked ==
    /\ job.pc = "idle"
    /\ job' = [IdleJob EXCEPT !.pc = "lease"]
    /\ idle' = FALSE
    /\ UNCHANGED <<batchVars, streamVars, ctorVars, optionVars, sizeVars, retired, paused, closed, consumer, heartbeat, leases, bcHist>>

\* ConsumeAll lines 188-196
ConsumeAllStart ==
    /\ job.pc = "idle"
    /\ IF retired
       THEN /\ job' = [IdleJob EXCEPT !.err = "retired"]
            /\ UNCHANGED idle
       ELSE /\ job' = [IdleJob EXCEPT !.pc = "lease"]
            /\ idle' = FALSE
    /\ UNCHANGED <<batchVars, streamVars, ctorVars, optionVars, sizeVars, retired, paused, closed, consumer, heartbeat, leases, bcHist>>

\* a ConsumeAll that goes on without the destination
LeaseDestinationOrNot(F) ==
    /\ job.pc = "lease"
    /\ \/ /\ job' = [job EXCEPT !.pc = "loop", !.leased = TRUE]
          /\ leases' = leases + 1
       \/ /\ "noDestination" \in F
          /\ job' = [job EXCEPT !.pc = "loop", !.err = "notFound"]
          /\ UNCHANGED leases
    /\ UNCHANGED <<batchVars, streamVars, ctorVars, optionVars, sizeVars, retired, paused, idle, closed, consumer, heartbeat, bcHist>>

\* ConsumeAll lines 219-223
LeaseDestination(F) ==
    /\ job.pc = "lease"
    /\ \/ /\ job' = [job EXCEPT !.pc = "loop", !.leased = TRUE]
          /\ leases' = leases + 1
          /\ UNCHANGED retired
       \/ /\ "noDestination" \in F
          /\ retired' = TRUE
          /\ job' = [job EXCEPT !.pc = "return", !.err = "notFound"]
          /\ UNCHANGED leases
    /\ UNCHANGED <<batchVars, streamVars, ctorVars, optionVars, sizeVars, paused, idle, closed, consumer, heartbeat, bcHist>>

\* ConsumeAll lines 239-243, processBatch and resume lines 413-425
ConsumeAllLoop(F) ==
    /\ job.pc = "loop"
    /\ IF retired THEN job' = [job EXCEPT !.pc = "return"]
       ELSE IF ~paused THEN job' = [job EXCEPT !.pc = "batch", !.resume = "skipped"]
       ELSE \/ job' = [job EXCEPT !.pc = "send", !.partitions = consumer.assigned,
                                  !.resume = "none"]
            \/ /\ "assignment" \in F
               /\ job' = [job EXCEPT !.pc = "batch", !.resume = "assignment"]
    /\ UNCHANGED <<batchVars, streamVars, ctorVars, optionVars, sizeVars, retired, paused, idle, closed, consumer, heartbeat, leases, bcHist>>

\* resume lines 426-428 and the heartbeat loop's line 298: the token passes
\* from the one to the other, and resume resumes the partitions
ResumeSend ==
    /\ job.pc = "send"
    /\ heartbeat = "select"
    /\ heartbeat' = "accepted"
    /\ consumer' = IF job.partitions THEN [consumer EXCEPT !.paused = FALSE] ELSE consumer
    /\ job' = [job EXCEPT !.pc = "batch", !.resume = "resumed"]
    /\ UNCHANGED <<batchVars, streamVars, ctorVars, optionVars, sizeVars, retired, paused, idle, closed, leases, bcHist>>

\* resume lines 429-431: nobody took the token for 3 heartbeat intervals, the
\* heartbeat loop being in its read or gone
ResumeTimeout ==
    /\ job.pc = "send"
    /\ heartbeat \in {"read", "accepted", "none"}
    /\ job' = [job EXCEPT !.pc = "batch", !.resume = "timeout"]
    /\ UNCHANGED <<batchVars, streamVars, ctorVars, optionVars, sizeVars, retired, paused, idle, closed, consumer, heartbeat, leases, bcHist>>

\* processBatch line 269: the batch function reads a message (another batch
\* follows) or its read times out (the run ends)
BatchRead ==
    /\ job.pc = "batch"
    /\ \/ /\ consumer.assigned
          /\ ~consumer.paused
          /\ bcHist.consumed < MaxReads
          /\ bcHist' = [bcHist EXCEPT !.consumed = @ + 1,
                                      !.offset = @ + 1,
                                      !.handed = @ \cup {[n |-> bcHist.offset + 1,
                                                          paused |-> paused,
                                                          resume |-> job.resume]}]
          /\ job' = [job EXCEPT !.pc = "loop"]
       \/ /\ job' = [job EXCEPT !.pc = "return"]
          /\ UNCHANGED bcHist
    /\ UNCHANGED <<batchVars, streamVars, ctorVars, optionVars, sizeVars, retired, paused, idle, closed, consumer, heartbeat, leases>>

\* a return that forgets the deferred Release
ConsumeAllReturnNoRelease ==
    /\ job.pc = "return"
    /\ idle' = TRUE
    /\ job' = [job EXCEPT !.pc = "pause", !.leased = FALSE]
    /\ UNCHANGED <<batchVars, streamVars, ctorVars, optionVars, sizeVars, retired, paused, closed, consumer, heartbeat, leases, bcHist>>

\* ConsumeAll's deferred functions, lines 224-226 and 197-198
ConsumeAllReturn ==
    /\ job.pc = "return"
    /\ leases' = IF job.leased THEN leases - 1 ELSE leases
    /\ idle' = TRUE
    /\ job' = [job EXCEPT !.pc = "pause", !.leased = FALSE]
    /\ UNCHANGED <<batchVars, streamVars, ctorVars, optionVars, sizeVars, retired, paused, closed, consumer, heartbeat, bcHist>>

\* ConsumeAll line 199: pause(), lines 273-288
ConsumeAllPause(F) ==
    /\ job.pc = "pause"
    /\ IF idle /\ retired
       THEN /\ job' = [job EXCEPT !.pc = SelectClosed]
            /\ UNCHANGED <<paused, consumer, heartbeat>>
       ELSE IF paused
       THEN /\ job' = [job EXCEPT !.pc = "idle"]
            /\ UNCHANGED <<paused, consumer, heartbeat>>
       ELSE /\ paused' = TRUE
            /\ \E failed \in {f \in {FALSE, TRUE} : f => "pause" \in F} :
                 consumer' = pauseKafkaConsumer(consumer, failed)
            /\ heartbeat' = "check"
            /\ job' = [job EXCEPT !.pc = "idle"]
    /\ UNCHANGED closed
    /\ UNCHANGED <<batchVars, streamVars, ctorVars, optionVars, sizeVars, retired, idle, leases, bcHist>>

\* the heartbeat loop, lines 292-297
HeartbeatCheck ==
    /\ heartbeat = "check"
    /\ heartbeat' = IF idle /\ retired THEN SelectClosed ELSE "select"
    /\ UNCHANGED <<batchVars, streamVars, ctorVars, optionVars, sizeVars, retired, paused, idle, closed, consumer, job, leases, bcHist>>

\* close() lines 262-264, called by the heartbeat loop: the channel is closed
\* by the caller that found it open, then consumer.Close(); the loop ends
HeartbeatClose ==
    /\ heartbeat \in {"close", "closeConsumer"}
    /\ bcHist' = [bcHist EXCEPT !.channel = IF heartbeat = "close" THEN @ + 1 ELSE @]
    /\ closed' = closed + 1
    /\ heartbeat' = "none"
    /\ UNCHANGED <<batchVars, streamVars, ctorVars, optionVars, sizeVars, retired, paused, idle, consumer, job, leases>>

\* close() lines 262-264, called by ConsumeAll's pause()
ConsumeAllClose ==
    /\ job.pc \in {"close", "closeConsumer"}
    /\ bcHist' = [bcHist EXCEPT !.channel = IF job.pc = "close" THEN @ + 1 ELSE @]
    /\ closed' = closed + 1
    /\ job' = [job EXCEPT !.pc = "idle"]
    /\ UNCHANGED <<batchVars, streamVars, ctorVars, optionVars, sizeVars, retired, paused, idle, consumer, heartbeat, leases>>

\* the heartbeat loop, line 302: the ticker fires
HeartbeatTick ==
    /\ heartbeat = "select"
    /\ heartbeat' = "read"
    /\ UNCHANGED <<batchVars, streamVars, ctorVars, optionVars, sizeVars, retired, paused, idle, closed, consumer, job, leases, bcHist>>

\* the heartbeat loop, lines 299-301: after the token, paused is cleared
HeartbeatResumed ==
    /\ heartbeat = "accepted"
    /\ paused' = FALSE
    /\ heartbeat' = "none"
    /\ UNCHANGED <<batchVars, streamVars, ctorVars, optionVars, sizeVars, retired, idle, closed, consumer, job, leases, bcHist>>

\* lines 319-326: ReadMessage gave the message at the fetch position, and
\* SeekPartitions puts the position back on it, unless it fails
HeartbeatSeek(sought) ==
    bcHist' = [bcHist EXCEPT !.slipped = @ \cup {bcHist.offset + 1},
                             !.offset = IF sought THEN @ ELSE @ + 1]

\* the heartbeat loop, lines 304-331: the read of the paused consumer
HeartbeatRead(F) ==
    /\ heartbeat = "read"
    /\ \/ UNCHANGED <<consumer, bcHist>>
       \/ /\ "read" \in F
          /\ UNCHANGED <<consumer, bcHist>>
       \/ /\ "fatal" \in F
          /\ consumer.client < MaxClients
          /\ consumer' = restartConsumer(consumer, retired)
          /\ UNCHANGED bcHist
       \/ /\ consumer.assigned
          /\ ~consumer.paused
          /\ bcHist.offset < MaxReads
          /\ \E sought \in {f \in {TRUE, FALSE} : ~f => "seek" \in F} :
               HeartbeatSeek(sought)
          /\ \E failed \in {f \in {FALSE, TRUE} : f => "pause" \in F} :
               consumer' = pauseKafkaConsumer(consumer, failed)
    /\ heartbeat' = "check"
    /\ UNCHANGED <<batchVars, streamVars, ctorVars, optionVars, sizeVars, retired, paused, idle, closed, job, leases>>

\* rebalanceCallback, lines 397-411, called from a read of the consumer: the
\* partition is assigned (and paused if paused is set), or revoked
rebalanceCallback(F) ==
    /\ closed = 0
    /\ heartbeat = "read" \/ job.pc = "batch"
    /\ \/ \E failed \in {f \in {FALSE, TRUE} : f => "pause" \in F} :
            consumer' = [consumer EXCEPT !.assigned = TRUE, !.paused = paused /\ ~failed]
       \/ consumer' = [consumer EXCEPT !.assigned = FALSE, !.paused = FALSE]
    /\ UNCHANGED <<batchVars, streamVars, ctorVars, optionVars, sizeVars, retired, paused, idle, closed, heartbeat, job, leases, bcHist>>

\* the state NewRetryConsumer leaves: lines 121-137 and pause() of
\* retry_consumer.go line 24, before any partition is assigned
InitBatchConsumer ==
    /\ paused = TRUE
    /\ idle = TRUE
    /\ closed = 0
    /\ consumer = NewConsumer(1)
    /\ heartbeat = "check"
    /\ job = IdleJob
    /\ leases = 0
    /\ bcHist = NoReads

\* ------------------------------------------------------- stream consumer

\* messages published on the primary topic
MaxPublished == 2
\* calls of UpdateDestination
MaxUpdates == 2

\* what may go wrong in the stream consumer: a failed read, a sink that fails
\* on a good event, a failed produce to the retry or dead topic, a failed
\* CreateStream
StreamFaults == {"read", "consume", "produce", "createStream"}

\* the payloads: an event the sink takes, one it rejects, and bytes that are
\* no JSON
PayloadKinds == {"good", "rejected", "undecodable"}

\* the sinks and the destinations: the ones the consumer is made with, and one
\* more for each UpdateDestination
SinkIds == 0..MaxUpdates

NewSink == [completed |-> 0, aborted |-> 0, consumed |-> <<>>]

IdleUpdate == [pc |-> "idle", new |-> 0, old |-> 0, err |-> "nil"]

\* RetryBackOffTime: a time after the clock
RetryBackOffTime(clock, attempt) == clock + 1

\* every failed message goes to the retry topic
FailedTopicRetryOnly(retries) == RetryTopic

\* every failed message goes to the dead topic
FailedTopicDeadOnly(retries) == DeadTopic

\* lines 520, 525-530: the retry topic, or the dead topic when no attempts
\* are left
FailedTopic(retries) ==
    IF retries >= MessagesRetryCount THEN DeadTopic ELSE RetryTopic

\* lines 519-538: the message the failure path produces, and its topic
FailedMessage(topicId, message, clock) ==
    LET r == GetKafkaIntHeader(message, retriesCountHeader)
        retries == r.val
    IN [topic |-> FailedTopic(retries),
        msg |-> Msg(message.value,
                    (retriesCountHeader :> Itoa(retries))
                    @@ (originalTopicHeader :> topicId)
                    @@ (retryTimeHeader :> ToISOFormat(RetryBackOffTime(clock, retries + 1))))]

\* start(), lines 470-505: the loop is closed, or reads and decodes a message
StreamLoopRead(F) ==
    /\ loop.pc = "select"
    /\ IF scClosed
       THEN /\ sinks' = [sinks EXCEPT ![stream] =
                           IF loop.err # "nil" THEN [@ EXCEPT !.aborted = @ + 1]
                           ELSE [@ EXCEPT !.completed = @ + 1]]
            /\ loop' = [loop EXCEPT !.pc = "done"]
            /\ UNCHANGED <<streamPosition, scHist>>
       ELSE /\ \/ /\ streamPosition >= Len(topics[PrimaryTopic])
                  /\ loop' = [loop EXCEPT !.err = "timeout"]
                  /\ UNCHANGED <<streamPosition, scHist>>
               \/ /\ "read" \in F
                  /\ loop' = [loop EXCEPT !.err = "read"]
                  /\ UNCHANGED <<streamPosition, scHist>>
               \/ /\ streamPosition < Len(topics[PrimaryTopic])
                  /\ LET message == topics[PrimaryTopic][streamPosition + 1]
                         decoded == message.value.kind # "undecodable"
                     IN loop' = [loop EXCEPT !.pc = IF decoded THEN "load" ELSE "failed",
                                             !.message = message,
                                             !.replaced = scHist.replaced,
                                             !.err = IF decoded THEN "nil" ELSE "decode"]
                  /\ streamPosition' = streamPosition + 1
                  /\ scHist' = [scHist EXCEPT !.read = @ + 1,
                                               !.last =
                                  IF topics[PrimaryTopic][streamPosition + 1].value.kind
                                       # "undecodable"
                                  THEN @ ELSE "failed"]
            /\ UNCHANGED sinks
    /\ UNCHANGED <<batchVars, retired, pauseVars, ctorVars, optionVars, sizeVars>>
    /\ UNCHANGED <<stream, destination, destLeases, scClosed, update>>

\* line 510: sc.stream.Load()
StreamLoopLoad ==
    /\ loop.pc = "load"
    /\ loop' = [loop EXCEPT !.pc = "consume", !.sink = stream]
    /\ UNCHANGED <<batchVars, retired, pauseVars, ctorVars, optionVars, sizeVars>>
    /\ UNCHANGED <<stream, sinks, destination, destLeases, scClosed, streamPosition,
                   update, scHist>>

\* lines 510-517: Consume on the sink that was loaded
StreamLoopConsume(F) ==
    /\ loop.pc = "consume"
    /\ \E failed \in {f \in {FALSE, TRUE} :
                        /\ f => (loop.message.value.kind = "rejected" \/ "consume" \in F)
                        /\ loop.message.value.kind = "rejected" => f} :
         /\ sinks' = [sinks EXCEPT ![loop.sink].consumed =
                        Append(@, [id |-> loop.message.value.id,
                                   late |-> sinks[loop.sink].completed > 0,
                                   stale |-> loop.sink \in loop.replaced])]
         /\ loop' = [loop EXCEPT !.pc = IF failed THEN "failed" ELSE "select",
                                 !.err = IF failed THEN "consume" ELSE "nil"]
         /\ scHist' = [scHist EXCEPT !.last = IF failed THEN "failed" ELSE "ok"]
    /\ UNCHANGED <<batchVars, retired, pauseVars, ctorVars, optionVars, sizeVars>>
    /\ UNCHANGED <<stream, destination, destLeases, scClosed, streamPosition, update>>

\* lines 519-548: the failed message goes to the retry topic or the dead
\* topic, or is lost
StreamLoopFailed(F) ==
    /\ loop.pc = "failed"
    /\ LET failed == FailedMessage(PrimaryTopic, loop.message, now)
       IN \/ /\ topics' = [topics EXCEPT ![failed.topic] = Append(@, failed.msg)]
             /\ UNCHANGED scHist
          \/ /\ "produce" \in F
             /\ scHist' = [scHist EXCEPT !.lost = @ + 1]
             /\ UNCHANGED topics
    /\ loop' = [loop EXCEPT !.pc = "select"]
    /\ UNCHANGED <<retryOnlyVars, retired, pauseVars, ctorVars, optionVars, sizeVars>>
    /\ UNCHANGED <<stream, sinks, destination, destLeases, scClosed, streamPosition, update>>

\* UpdateDestination, lines 567-573
UpdateLease(F) ==
    /\ update.pc = "idle"
    /\ scHist.updates < MaxUpdates
    /\ LET d == scHist.updates + 1
       IN /\ destLeases' = [destLeases EXCEPT ![d] = @ + 1]
          /\ \/ update' = [IdleUpdate EXCEPT !.pc = "swap", !.new = d]
             \/ /\ "createStream" \in F
                /\ update' = [IdleUpdate EXCEPT !.err = "createStream"]
    /\ scHist' = [scHist EXCEPT !.updates = @ + 1]
    /\ UNCHANGED <<batchVars, retired, pauseVars, ctorVars, optionVars, sizeVars>>
    /\ UNCHANGED <<stream, sinks, destination, scClosed, streamPosition, loop>>

\* line 574: sc.stream.Swap
UpdateSwap ==
    /\ update.pc = "swap"
    /\ update' = [update EXCEPT !.pc = "complete", !.old = stream]
    /\ stream' = update.new
    /\ UNCHANGED <<batchVars, retired, pauseVars, ctorVars, optionVars, sizeVars>>
    /\ UNCHANGED <<sinks, destination, destLeases, scClosed, streamPosition, loop, scHist>>

\* line 575: Complete on the previous sink
UpdateComplete ==
    /\ update.pc = "complete"
    /\ sinks' = [sinks EXCEPT ![update.old].completed = @ + 1]
    /\ update' = [update EXCEPT !.pc = "release"]
    /\ UNCHANGED <<batchVars, retired, pauseVars, ctorVars, optionVars, sizeVars>>
    /\ UNCHANGED <<stream, destination, destLeases, scClosed, streamPosition, loop, scHist>>

\* lines 577-581: the previous destination is released, and nil returned
UpdateReturn ==
    /\ update.pc = "release"
    /\ destLeases' = [destLeases EXCEPT ![destination] = @ - 1]
    /\ destination' = update.new
    /\ update' = [update EXCEPT !.pc = "idle"]
    /\ scHist' = [scHist EXCEPT !.replaced = @ \cup {update.old}]
    /\ UNCHANGED <<batchVars, retired, pauseVars, ctorVars, optionVars, sizeVars>>
    /\ UNCHANGED <<stream, sinks, scClosed, streamPosition, loop>>

\* Close, lines 556-562
StreamClose ==
    /\ ~scClosed
    /\ scClosed' = TRUE
    /\ destLeases' = [destLeases EXCEPT ![destination] = @ - 1]
    /\ UNCHANGED <<batchVars, retired, pauseVars, ctorVars, optionVars, sizeVars>>
    /\ UNCHANGED <<stream, sinks, destination, streamPosition, loop, update, scHist>>

\* a producer commits an event on the primary topic
Publish ==
    /\ scHist.published < MaxPublished
    /\ \E kind \in PayloadKinds :
         topics' = [topics EXCEPT ![PrimaryTopic] =
                      Append(@, Msg([id |-> scHist.published + 1, kind |-> kind], <<>>))]
    /\ scHist' = [scHist EXCEPT !.published = @ + 1]
    /\ UNCHANGED <<retryOnlyVars, retired, pauseVars, ctorVars, optionVars, sizeVars>>
    /\ UNCHANGED <<stream, sinks, destination, destLeases, scClosed, streamPosition,
                   loop, update>>

\* the state NewStreamConsumer leaves, lines 407-427
InitStream ==
    /\ stream = 0
    /\ sinks = [s \in SinkIds |-> NewSink]
    /\ destination = 0
    /\ destLeases = [d \in SinkIds |-> IF d = 0 THEN 1 ELSE 0]
    /\ scClosed = FALSE
    /\ streamPosition = 0
    /\ loop = [pc |-> "select", message |-> Msg([id |-> 0, kind |-> "good"], <<>>),
               replaced |-> {}, sink |-> 0, err |-> "nil"]
    /\ update = IdleUpdate
    /\ scHist = [published |-> 0, read |-> 0, lost |-> 0, updates |-> 0, replaced |-> {},
                 last |-> "none"]

\* ------------------------------------------------------------ construction

\* the topic has 0..MaxPartitions partitions
MaxPartitions == 3

\* the calls of the constructor that may fail
CtorFaults == {"parse", "newConsumer", "metadata", "newProducer", "initTransactions",
               "subscribe"}

Constructors == {"NewAbstractBatchConsumer", "NewRetryConsumer"}

\* the constructor's frame before its first statement
NewCtor(by, partitions, longWait) ==
    [pc |-> "parse", by |-> by, partitions |-> partitions, longWait |-> longWait,
     sessionTimeout |-> FALSE, metadata |-> NoOffset, consumerOpen |-> FALSE,
     producerOpen |-> FALSE, subscribed |-> FALSE, deliveryReports |-> FALSE,
     returned |-> "nil", err |-> "nil"]

\* the frame of a constructor that has returned a consumer
Constructed ==
    [NewCtor("NewRetryConsumer", 1, FALSE) EXCEPT
       !.pc = "done", !.metadata = 1, !.consumerOpen = TRUE, !.producerOpen = TRUE,
       !.subscribed = TRUE, !.deliveryReports = TRUE, !.returned = "consumer"]

\* the constructor returns nil and the error
Failed(frame, e) == [frame EXCEPT !.pc = "done", !.err = e]

\* the guard, were it to allow two partitions
TooManyPartitionsLax(n) == n > 2

\* line 95: len(topic.Partitions) > 1
TooManyPartitions(n) == n > 1

\* lines 65-70: ParseTopicId
CtorParseTopicId(F) ==
    /\ ctor.pc = "parse"
    /\ \/ ctor' = [ctor EXCEPT !.pc = "newConsumer"]
       \/ /\ "parse" \in F
          /\ ctor' = Failed(ctor, "parse")
    /\ UNCHANGED <<retryVars, pauseVars, streamVars, optionVars, sizeVars>>

\* lines 71-86: the consumer's configuration and kafka.NewConsumer
CtorNewConsumer(F) ==
    /\ ctor.pc = "newConsumer"
    /\ \/ ctor' = [ctor EXCEPT !.pc = "metadata", !.sessionTimeout = ctor.longWait,
                               !.consumerOpen = TRUE]
       \/ /\ "newConsumer" \in F
          /\ ctor' = Failed([ctor EXCEPT !.sessionTimeout = ctor.longWait], "newConsumer")
    /\ UNCHANGED <<retryVars, pauseVars, streamVars, optionVars, sizeVars>>

\* lines 88-92: GetMetadata
CtorGetMetadata(F) ==
    /\ ctor.pc = "metadata"
    /\ \/ ctor' = [ctor EXCEPT !.pc = "check", !.metadata = ctor.partitions]
       \/ /\ "metadata" \in F
          /\ ctor' = Failed(ctor, "metadata")
    /\ UNCHANGED <<retryVars, pauseVars, streamVars, optionVars, sizeVars>>

\* lines 93-101: the partition count
CtorCheckPartitions ==
    /\ ctor.pc = "check"
    /\ ctor' = IF TooManyPartitions(ctor.metadata)
               THEN Failed(ctor, "invalid_partitions_count")
               ELSE [ctor EXCEPT !.pc = "newProducer"]
    /\ UNCHANGED <<retryVars, pauseVars, streamVars, optionVars, sizeVars>>

\* lines 103-111: kafka.NewProducer
CtorNewProducer(F) ==
    /\ ctor.pc = "newProducer"
    /\ \/ ctor' = [ctor EXCEPT !.pc = "initTransactions", !.producerOpen = TRUE]
       \/ /\ "newProducer" \in F
          /\ ctor' = Failed([ctor EXCEPT !.consumerOpen = FALSE], "newProducer")
    /\ UNCHANGED <<retryVars, pauseVars, streamVars, optionVars, sizeVars>>

\* lines 112-138: InitTransactions, and the consumer is made, idle
CtorInitTransactions(F) ==
    /\ ctor.pc = "initTransactions"
    /\ \/ /\ ctor' = [ctor EXCEPT !.pc = "subscribe"]
          /\ idle' = TRUE
       \/ /\ "initTransactions" \in F
          /\ ctor' = Failed([ctor EXCEPT !.consumerOpen = FALSE], "initTransactions")
          /\ UNCHANGED idle
    /\ UNCHANGED <<retryVars, streamVars, optionVars, sizeVars>>
    /\ UNCHANGED <<paused, closed, consumer, heartbeat, job, leases, bcHist>>

\* lines 139-169: Subscribe, the delivery-report loop, and the return
CtorSubscribe(F) ==
    /\ ctor.pc = "subscribe"
    /\ \/ ctor' = [ctor EXCEPT !.pc = IF ctor.by = "NewRetryConsumer" THEN "pause" ELSE "done",
                               !.subscribed = TRUE, !.deliveryReports = TRUE,
                               !.returned = IF ctor.by = "NewRetryConsumer" THEN "nil"
                                            ELSE "consumer"]
       \/ /\ "subscribe" \in F
          /\ ctor' = Failed([ctor EXCEPT !.consumerOpen = FALSE], "subscribe")
    /\ UNCHANGED <<retryVars, pauseVars, streamVars, optionVars, sizeVars>>

\* a NewRetryConsumer that returns the consumer without pause()
CtorNoPause ==
    /\ ctor.pc = "pause"
    /\ ctor' = [ctor EXCEPT !.pc = "done", !.returned = "consumer"]
    /\ UNCHANGED <<retryVars, pauseVars, streamVars, optionVars, sizeVars>>

\* NewRetryConsumer, retry_consumer.go lines 20-25: pause() on the new
\* consumer (lines 273-288), which starts the heartbeat loop
CtorPause ==
    /\ ctor.pc = "pause"
    /\ IF idle /\ retired
       THEN /\ closed' = closed + 1
            /\ UNCHANGED <<paused, consumer, heartbeat>>
       ELSE IF paused
       THEN UNCHANGED <<paused, closed, consumer, heartbeat>>
       ELSE /\ paused' = TRUE
            /\ consumer' = pauseKafkaConsumer(consumer, FALSE)
            /\ heartbeat' = "check"
            /\ UNCHANGED closed
    /\ ctor' = [ctor EXCEPT !.pc = "done", !.returned = "consumer"]
    /\ UNCHANGED <<retryVars, streamVars, optionVars, sizeVars>>
    /\ UNCHANGED <<idle, job, leases, bcHist>>

\* --------------------------------------------------------- stream options

\* calls of StreamOptions.Add on one StreamOptions
MaxAdds == 2

\* Go values: an int, a float64 (in tenths), a bool, a string, a []string,
\* a BulkMode, a utils.Set[string] (the address of a map), and nil
IntV(n) == [int |-> n]
FloatV(tenths) == [float64 |-> tenths]
BoolV(b) == [bool |-> b]
StrV(str) == [string |-> str]
ListV(l) == [strings |-> l]
ModeV(m) == [BulkMode |-> m]
SetV(address) == [set |-> address]
NilV == [nil |-> TRUE]

TypeOf(value) == CHOOSE t \in DOMAIN value : TRUE

\* the BulkMode values
Stream == ModeV("stream")
Batch == ModeV("batch")
Unknown == ModeV("")

\* the address of PrimaryKeyOption.DefaultValue, utils.Set[string]{}
DefaultSet == 1

\* lines 11-95: the options, the type V of each, its DefaultValue (the zero
\* value of V where none is given) and its parser
OptionKeys ==
    {"mode", "batchSize", "frequency", "retryBatchSize", "retryFrequency",
     "primaryKey", "deduplicate", "partitionId", "timestampColumn",
     "functions", "streams", "dataLayout", "events", "hosts"}

OptionType(key) ==
    CASE key = "mode" -> "BulkMode"
      [] key \in {"batchSize", "retryBatchSize"} -> "int"
      [] key \in {"frequency", "retryFrequency"} -> "float64"
      [] key = "primaryKey" -> "set"
      [] key = "deduplicate" -> "bool"
      [] key \in {"functions", "streams"} -> "any"
      [] OTHER -> "string"

DefaultValue(key) ==
    CASE OptionType(key) = "BulkMode" -> Unknown
      [] OptionType(key) = "int" -> IntV(0)
      [] OptionType(key) = "float64" -> FloatV(0)
      [] OptionType(key) = "set" -> SetV(DefaultSet)
      [] OptionType(key) = "bool" -> BoolV(FALSE)
      [] OptionType(key) = "any" -> NilV
      [] OTHER -> StrV("")

\* lines 117-119, 97-115: the registry init() fills
optionsRegistry == OptionKeys

\* strconv on the strings of the model
FloatStrings == <<"0", "0.5", "2">>
FloatTenths == <<0, 5, 20>>

Ok(val) == [err |-> FALSE, val |-> val]
Err == [err |-> TRUE, val |-> NilV]

\* utils.ParseInt: an int, a float64 truncated, or a string of digits
ParseInt(serialized) ==
    CASE TypeOf(serialized) = "int" -> Ok(serialized)
      [] TypeOf(serialized) = "float64" -> Ok(IntV(serialized.float64 \div 10))
      [] TypeOf(serialized) = "string" ->
            IF Atoi(serialized.string).err THEN Err
            ELSE Ok(IntV(Atoi(serialized.string).val))
      [] OTHER -> Err

\* utils.ParseFloat: a float64, an int, or a string of a number
ParseFloat(serialized) ==
    CASE TypeOf(serialized) = "float64" -> Ok(serialized)
      [] TypeOf(serialized) = "int" -> Ok(FloatV(serialized.int * 10))
      [] TypeOf(serialized) = "string" ->
            IF \E k \in DOMAIN FloatStrings : FloatStrings[k] = serialized.string
            THEN Ok(FloatV(FloatTenths[CHOOSE k \in DOMAIN FloatStrings :
                                           FloatStrings[k] = serialized.string]))
            ELSE Err
      [] OTHER -> Err

\* utils.ParseBool: a bool, or the string of one
ParseBool(serialized) ==
    CASE TypeOf(serialized) = "bool" -> Ok(serialized)
      [] TypeOf(serialized) = "string" ->
            IF serialized.string = "true" THEN Ok(BoolV(TRUE))
            ELSE IF serialized.string = "false" THEN Ok(BoolV(FALSE))
            ELSE Err
      [] OTHER -> Err

\* utils.ParseString: a string
ParseString(serialized) ==
    IF TypeOf(serialized) = "string" THEN Ok(serialized) ELSE Err

\* an unrecognized mode parsed to the value Unknown, without the error
ParseModeLenient(serialized) ==
    CASE TypeOf(serialized) = "string" ->
            IF serialized.string = "stream" THEN Ok(Stream)
            ELSE IF serialized.string = "batch" THEN Ok(Batch)
            ELSE Ok(Unknown)
      [] OTHER -> [err |-> TRUE, val |-> Unknown]

\* lines 38-52: the ParseFunc of ModeOption
ParseMode(serialized) ==
    CASE TypeOf(serialized) = "string" ->
            IF serialized.string = "stream" THEN Ok(Stream)
            ELSE IF serialized.string = "batch" THEN Ok(Batch)
            ELSE [err |-> TRUE, val |-> Unknown]
      [] OTHER -> [err |-> TRUE, val |-> Unknown]

\* lines 89-90: the ParseFunc of FunctionsOption and StreamsOption
ParseNothing(serialized) == Ok(NilV)

\* the ParseFunc of an option
ParseFunc(key, serialized) ==
    CASE key = "mode" -> ParseMode(serialized)
      [] OptionType(key) = "int" -> ParseInt(serialized)
      [] OptionType(key) = "float64" -> ParseFloat(serialized)
      [] OptionType(key) = "bool" -> ParseBool(serialized)
      [] OptionType(key) = "any" -> ParseNothing(serialized)
      [] OTHER -> ParseString(serialized)

\* a StreamOptions: valuesMap (nil, or a map from keys to values) and Options
NewStreamOptions == [valuesMap |-> [isNil |-> TRUE, entries |-> <<>>], Options |-> <<>>]

\* the type assertion .(V) of line 169: a nil interface has no type
HasType(value, type) ==
    IF type = "any" THEN TypeOf(value) # "nil" ELSE TypeOf(value) = type

\* a Get that reads the map without the type assertion
GetUntyped(key, so) ==
    IF key \in DOMAIN so.valuesMap.entries THEN so.valuesMap.entries[key]
    ELSE DefaultValue(key)

\* lines 168-174: ImplementationOption.Get
Get(key, so) ==
    IF /\ key \in DOMAIN so.valuesMap.entries
       /\ HasType(so.valuesMap.entries[key], OptionType(key))
    THEN so.valuesMap.entries[key]
    ELSE DefaultValue(key)

\* a Set that makes the map and forgets the value
SetNothing(key, so, value) ==
    [so EXCEPT !.valuesMap = [isNil |-> FALSE, entries |-> so.valuesMap.entries]]

\* lines 176-182: ImplementationOption.Set
Set(key, so, value) ==
    [so EXCEPT !.valuesMap =
        [isNil |-> FALSE,
         entries |-> [k \in DOMAIN so.valuesMap.entries \cup {key} |->
                         IF k = key THEN value ELSE so.valuesMap.entries[k]]]]

\* the StreamOption closures: the one Parse returns (lines 161-163), the one
\* withPrimaryKey returns (lines 185-192) and the empty one (line 63)
SetOption(key, val) == [fn |-> "Set", key |-> key, val |-> val]
PrimaryKeyClosure(key, pkFields) == [fn |-> "withPrimaryKey", key |-> key, pkFields |-> pkFields]
NoOption == [fn |-> "nothing"]

Range(seq) == {seq[k] : k \in DOMAIN seq}

\* a primary key that is added to whatever set Get returns
PutAllAlways(key, pkFields, so, sets) ==
    [so |-> so,
     sets |-> [sets EXCEPT ![Get(key, so).set] = @ \cup Range(pkFields)]]

\* lines 185-192: the closure of withPrimaryKey, on a StreamOptions and the
\* sets there are
withPrimaryKey(key, pkFields, so, sets) ==
    LET set == Get(key, so).set
    IN IF sets[set] = {}
       THEN [so |-> Set(key, so, SetV(Len(sets) + 1)),
             sets |-> Append(sets, Range(pkFields))]
       ELSE [so |-> so,
             sets |-> [sets EXCEPT ![set] = @ \cup Range(pkFields)]]

\* a StreamOption called on a StreamOptions
Call(option, so, sets) ==
    CASE option.fn = "Set" -> [so |-> Set(option.key, so, option.val), sets |-> sets]
      [] option.fn = "withPrimaryKey" -> withPrimaryKey(option.key, option.pkFields, so, sets)
      [] OTHER -> [so |-> so, sets |-> sets]

\* lines 157, 67: (nil, error)
NilOption == [fn |-> "nil"]

NoMutator == [err |-> TRUE, option |-> NilOption]

\* lines 54-70: the AdvancedParseFunc of PrimaryKeyOption
ParsePrimaryKey(key, serialized) ==
    CASE TypeOf(serialized) = "strings" ->
            [err |-> FALSE, option |-> PrimaryKeyClosure(key, serialized.strings)]
      [] TypeOf(serialized) = "string" ->
            IF serialized.string = "" THEN [err |-> FALSE, option |-> NoOption]
            ELSE [err |-> FALSE, option |-> PrimaryKeyClosure(key, <<serialized.string>>)]
      [] OTHER -> NoMutator

\* lines 154-166: ImplementationOption.Parse
Parse(key, serialized) ==
    IF key # "primaryKey"
    THEN LET r == ParseFunc(key, serialized)
         IN IF r.err THEN NoMutator
            ELSE [err |-> FALSE, option |-> SetOption(key, r.val)]
    ELSE ParsePrimaryKey(key, serialized)

\* lines 121-128: ParseOption
ParseOption(name, serialized) ==
    IF name \notin optionsRegistry THEN NoMutator
    ELSE Parse(name, serialized)

\* lines 138-141: StreamOptions.Add
Add(option, so, sets) ==
    LET called == Call(option, so, sets)
    IN [so |-> [called.so EXCEPT !.Options = Append(@, option)], sets |-> called.sets]

\* the Options of a StreamOptions called in their order on another one
RECURSIVE CallAll(_, _, _)
CallAll(options, so, sets) ==
    IF options = <<>> THEN [so |-> so, sets |-> sets]
    ELSE LET called == Call(Head(options), so, sets)
         IN CallAll(Tail(options), called.so, called.sets)

\* what ParseOption is called with: registered names and one that is not;
\* strings, numbers, bools, lists of strings and nil
OptionNames == OptionKeys \cup {"unregistered"}

SerializedValues ==
    {StrV(str) : str \in {"", "stream", "batch", "x", "a", "c", "2", "0.5", "true"}}
    \cup {IntV(n) : n \in {0, 2}}
    \cup {FloatV(tenths) : tenths \in {5, 20}}
    \cup {BoolV(b) : b \in BOOLEAN}
    \cup {ListV(l) : l \in {<<>>, <<"a", "b">>, <<"c">>}}
    \cup {NilV}

NothingParsed == [calls |-> 0, name |-> "", serialized |-> NilV, err |-> FALSE,
                  option |-> NoOption, before |-> NewStreamOptions]

\* ParseOption on a name and a value of the configuration, and Add on its
\* StreamOption: what the destination does with each option of its config
OptionsAdd ==
    /\ parsed.calls < MaxAdds
    /\ \E name \in OptionNames, serialized \in SerializedValues :
         LET r == ParseOption(name, serialized)
             added == Add(r.option, bags[1], heap)
         IN /\ parsed' = [calls |-> parsed.calls + 1, name |-> name,
                          serialized |-> serialized, err |-> r.err,
                          option |-> r.option, before |-> bags[1]]
            /\ IF r.err THEN UNCHANGED <<bags, heap>>
               ELSE /\ bags' = [bags EXCEPT ![1] = added.so]
                    /\ heap' = added.sets
    /\ UNCHANGED <<retryVars, pauseVars, streamVars, ctorVars, sizeVars>>

\* CreateStream with the Options of the destination (lines 419, 570): the
\* sink calls them on a fresh StreamOptions
OptionsReplay ==
    /\ bags[2] = NewStreamOptions
    /\ bags[1].Options # <<>>
    /\ LET called == CallAll(bags[1].Options, NewStreamOptions, heap)
       IN /\ bags' = [bags EXCEPT ![2] = [called.so EXCEPT !.Options = bags[1].Options]]
          /\ heap' = called.sets
    /\ UNCHANGED parsed
    /\ UNCHANGED <<retryVars, pauseVars, streamVars, ctorVars, sizeVars>>

InitOptions ==
    /\ bags = [b \in 1..2 |-> NewStreamOptions]
    /\ heap = <<{}>>
    /\ parsed = NothingParsed

\* ------------------------------------------------- batch counters

\* the batches of a run
MaxBatches == 2

\* the results of a batch: each counter 0 or 1
BatchResults == [CounterFields -> 0..1]

\* a BatchCounters in its zero value; sum is the sum of the batch results over
\* each field, as the properties need it
NoTotals == [bs |-> ZeroCounters, sum |-> ZeroCounters, batches |-> 0]

\* ConsumeAll line 250: counters.accumulate(batchStats)
Accumulate ==
    /\ totals.batches < MaxBatches
    /\ \E batchStats \in BatchResults :
         totals' = [bs |-> accumulate(totals.bs, batchStats),
                    sum |-> [f \in CounterFields |-> totals.sum[f] + batchStats[f]],
                    batches |-> totals.batches + 1]
    /\ UNCHANGED <<retryVars, pauseVars, streamVars, ctorVars, optionVars, sizes>>

\* ------------------------------------------------------------- batch sizes

\* the largest batch size of an option or of the configuration
MaxBatchSize == 3

\* BatchRunnerDefaultRetryBatchFraction in quarters, 0 to 1: fractions whose
\* product with an int is exact in float64
Quarters == 0..4

\* the larger of the option and the default
ResolveLarger(option, default) ==
    IF option > default THEN option ELSE default

\* ConsumeAll lines 228-236: the option if it is set to a positive number,
\* else the default
Resolve(option, default) ==
    IF option <= 0 THEN default ELSE option

\* line 235: int(float64(maxBatchSize) * fraction), for sizes and fractions
\* that are not negative
DefaultRetryBatchSize(maxBatchSize, quarters) == (maxBatchSize * quarters) \div 4

\* before ConsumeAll has resolved the sizes
NoSizes ==
    [pc |-> "idle", batchSize |-> 0, retryBatchSize |-> 0,
     BatchRunnerDefaultBatchSize |-> 0, quarters |-> 0,
     maxBatchSize |-> 0, resolvedRetryBatchSize |-> 0]

\* ConsumeAll lines 228-236
ResolveBatchSizes ==
    /\ sizes.pc = "lease"
    /\ LET maxBatchSize == Resolve(sizes.batchSize, sizes.BatchRunnerDefaultBatchSize)
       IN sizes' = [sizes EXCEPT
                      !.pc = "loop",
                      !.maxBatchSize = maxBatchSize,
                      !.resolvedRetryBatchSize =
                          Resolve(sizes.retryBatchSize,
                                  DefaultRetryBatchSize(maxBatchSize, sizes.quarters))]
    /\ UNCHANGED <<retryVars, pauseVars, streamVars, ctorVars, optionVars, totals>>

\* a destination's options, set or not (0, the options' default) or negative,
\* and a configuration
InitSizes ==
    \E batchSize \in -1..MaxBatchSize, retrySize \in -1..MaxBatchSize,
       default \in 1..MaxBatchSize, quarters \in Quarters :
      sizes = [NoSizes EXCEPT !.pc = "lease",
                              !.batchSize = batchSize,
                              !.retryBatchSize = retrySize,
                              !.BatchRunnerDefaultBatchSize = default,
                              !.quarters = quarters]

\* ------------------------------------------------- retry consumer: SpecRetry

InitHist ==
    [enqueued |-> 0, delivered |-> {}, produced |-> {},
     committedAtStart |-> 0,
     skippedSeen |-> 0, runSkippedSeen |-> 0, prevFirst |-> NoOffset]

\* the topics are empty and no batch has run
InitTopics ==
    /\ topics = [t \in TopicNames |-> <<>>]
    /\ position = 0
    /\ committed = 0
    /\ tx = NoTransaction
    /\ now = 0
    /\ retired = FALSE
    /\ retryBatchSize = RetryBatchSize
    /\ fn = IdleFrame
    /\ run = NoRun
    /\ hist = InitHist

\* the consumers, their topics and the options before any step
InitConsumers ==
    /\ InitTopics
    /\ InitBatchConsumer
    /\ InitStream
    /\ ctor = Constructed
    /\ InitOptions

InitRetry ==
    /\ InitConsumers
    /\ sizes = NoSizes
    /\ totals = NoTotals

NextRetry ==
    \/ RetryRunStart
    \/ BoundedBatchCall(Faults)
    \/ RetryBatchIteration(Faults)
    \/ RetryBatchFinish(Faults)
    \/ RetryBatchDone
    \/ Retire
    \/ Enqueue
    \/ Tick

SpecRetry == InitRetry /\ [][NextRetry]_vars

\* ------------------------------------------------- batch consumer: SpecPause

\* the batch consumer when every call of the kafka client succeeds
NextPause ==
    \/ ConsumeAllStart
    \/ LeaseDestination({})
    \/ ConsumeAllLoop({})
    \/ ResumeSend
    \/ ResumeTimeout
    \/ BatchRead
    \/ ConsumeAllReturn
    \/ ConsumeAllPause({})
    \/ HeartbeatCheck
    \/ HeartbeatTick
    \/ HeartbeatResumed
    \/ HeartbeatRead({})
    \/ rebalanceCallback({})
    \/ HeartbeatClose
    \/ ConsumeAllClose
    \/ Retire

SpecPause == InitRetry /\ [][NextPause]_vars

\* the batch consumer when every call succeeds, the job is run again and
\* again, a run goes on to its return, the select of resume() ends with the
\* token taken or with the timeout, and the heartbeat loop and its ticker
\* keep running
FairPause ==
    /\ WF_vars(ConsumeAllStart)
    /\ WF_vars(LeaseDestination({}))
    /\ WF_vars(ConsumeAllLoop({}))
    /\ SF_vars(ResumeSend \/ ResumeTimeout)
    /\ WF_vars(BatchRead)
    /\ WF_vars(ConsumeAllReturn)
    /\ WF_vars(ConsumeAllPause({}))
    /\ WF_vars(HeartbeatCheck)
    /\ WF_vars(HeartbeatTick)
    /\ WF_vars(HeartbeatResumed)
    /\ WF_vars(HeartbeatRead({}))
    /\ WF_vars(HeartbeatClose)
    /\ WF_vars(ConsumeAllClose)

SpecPauseLive == InitRetry /\ [][NextPause]_vars /\ FairPause

\* the batch consumer when the heartbeat read may fail, also with an error
\* that is not retriable, and every other call succeeds
NextRestart ==
    \/ ConsumeAllStart
    \/ LeaseDestination({})
    \/ ConsumeAllLoop({})
    \/ ResumeSend
    \/ ResumeTimeout
    \/ BatchRead
    \/ ConsumeAllReturn
    \/ ConsumeAllPause({})
    \/ HeartbeatCheck
    \/ HeartbeatTick
    \/ HeartbeatResumed
    \/ HeartbeatRead({"read", "fatal"})
    \/ rebalanceCallback({})
    \/ HeartbeatClose
    \/ ConsumeAllClose
    \/ Retire

SpecRestart == InitRetry /\ [][NextRestart]_vars

\* the batch consumer when the calls may fail
NextPauseFaults ==
    \/ ConsumeAllStart
    \/ LeaseDestination(PauseFaults)
    \/ ConsumeAllLoop(PauseFaults)
    \/ ResumeSend
    \/ ResumeTimeout
    \/ BatchRead
    \/ ConsumeAllReturn
    \/ ConsumeAllPause(PauseFaults)
    \/ HeartbeatCheck
    \/ HeartbeatTick
    \/ HeartbeatResumed
    \/ HeartbeatRead(PauseFaults)
    \/ rebalanceCallback(PauseFaults)
    \/ HeartbeatClose
    \/ ConsumeAllClose
    \/ Retire

SpecPauseFaults == InitRetry /\ [][NextPauseFaults]_vars

\* ------------------------------------------------- batch sizes: SpecSizes

NextSizes == ResolveBatchSizes

\* a consumer about to resolve its batch sizes
InitResolve ==
    /\ InitConsumers
    /\ InitSizes
    /\ totals = NoTotals

SpecSizes == InitResolve /\ [][NextSizes]_vars

\* --------------------------------------------- batch counters: SpecCounters

NextCounters == Accumulate

SpecCounters == InitRetry /\ [][NextCounters]_vars

\* ---------------------------------------------------- construction: SpecCtor

\* before the constructor runs: no consumer, no loop
InitCtor ==
    /\ InitTopics
    /\ InitStream
    /\ InitOptions
    /\ sizes = NoSizes
    /\ totals = NoTotals
    /\ paused = FALSE
    /\ idle = FALSE
    /\ closed = 0
    /\ consumer = NewConsumer(1)
    /\ heartbeat = "none"
    /\ job = IdleJob
    /\ leases = 0
    /\ bcHist = NoReads
    /\ \E by \in Constructors, partitions \in 0..MaxPartitions, longWait \in BOOLEAN :
         ctor = NewCtor(by, partitions, longWait)

NextCtor ==
    \/ CtorParseTopicId(CtorFaults)
    \/ CtorNewConsumer(CtorFaults)
    \/ CtorGetMetadata(CtorFaults)
    \/ CtorCheckPartitions
    \/ CtorNewProducer(CtorFaults)
    \/ CtorInitTransactions(CtorFaults)
    \/ CtorSubscribe(CtorFaults)
    \/ CtorPause

SpecCtor == InitCtor /\ [][NextCtor]_vars

\* ---------------------------------------------- a new consumer: SpecBorn

\* the constructor, and the heartbeat loop and the rebalances of the consumer
\* it returns, before any ConsumeAll; reads of the paused consumer may fail
NextBorn ==
    \/ CtorParseTopicId(CtorFaults)
    \/ CtorNewConsumer(CtorFaults)
    \/ CtorGetMetadata(CtorFaults)
    \/ CtorCheckPartitions
    \/ CtorNewProducer(CtorFaults)
    \/ CtorInitTransactions(CtorFaults)
    \/ CtorSubscribe(CtorFaults)
    \/ CtorPause
    \/ HeartbeatCheck
    \/ HeartbeatTick
    \/ HeartbeatRead({"read", "fatal"})
    \/ rebalanceCallback({})
    \/ Publish

SpecBorn == InitCtor /\ [][NextBorn]_vars

\* ------------------------------------------------ stream consumer: SpecStream

\* the message loop and UpdateDestination
NextStream ==
    \/ StreamLoopRead(StreamFaults)
    \/ StreamLoopLoad
    \/ StreamLoopConsume(StreamFaults)
    \/ StreamLoopFailed(StreamFaults)
    \/ UpdateLease(StreamFaults)
    \/ UpdateSwap
    \/ UpdateComplete
    \/ UpdateReturn
    \/ Publish

SpecStream == InitRetry /\ [][NextStream]_vars

\* the same, and Close
NextStreamClose ==
    \/ StreamLoopRead(StreamFaults)
    \/ StreamLoopLoad
    \/ StreamLoopConsume(StreamFaults)
    \/ StreamLoopFailed(StreamFaults)
    \/ UpdateLease(StreamFaults)
    \/ UpdateSwap
    \/ UpdateComplete
    \/ UpdateReturn
    \/ StreamClose
    \/ Publish

SpecStreamClose == InitRetry /\ [][NextStreamClose]_vars

\* --------------------------------------------- stream options: SpecOptions

\* the options of a configuration are parsed and added, and a sink is made
\* with them
NextOptions ==
    \/ OptionsAdd
    \/ OptionsReplay

SpecOptions == InitRetry /\ [][NextOptions]_vars

\* ------------------------------------------------ retry consumer: properties

InBatch == fn.pc \in {"loop", "finish", "returned"}

\* the consumed message a record was made from
Source(rec) == topics[RetryTopic][rec.src + 1]

\* a record as the history keeps it once committed
Delivered(rec) == [src |-> rec.src, topic |-> rec.topic, msg |-> rec.msg]

\* the committed records made from the offsets that were not committed when
\* this batch started: those that this batch produced
DeliveredOfBatch == {d \in hist.delivered : d.src >= hist.committedAtStart}

Skippable(message) == Classify(message, 0).kind = "skipped"

HasAttemptsLeft(message) ==
    /\ GetKafkaHeader(message, originalTopicHeader) # ""
    /\ ~GetKafkaIntHeader(message, retriesCountHeader).err
    /\ GetKafkaIntHeader(message, retriesCountHeader).val < MessagesRetryCount

Exhausted(message) ==
    /\ GetKafkaHeader(message, originalTopicHeader) # ""
    /\ ~GetKafkaIntHeader(message, retriesCountHeader).err
    /\ GetKafkaIntHeader(message, retriesCountHeader).val >= MessagesRetryCount

RetriesOf(message) == GetKafkaIntHeader(message, retriesCountHeader).val

\* C1: a retry batch is all-or-nothing. The topics hold exactly the messages
\* that were enqueued and the records of committed transactions; while a batch
\* runs and when it has returned, either none of its records is committed and
\* the group offset is the one it started from, or all of them are and the
\* group offset is the last consumed offset + 1; and the offsets below the
\* group offset are exactly those whose record is committed, once each.
C1_AllOrNothing ==
    /\ \A t \in TopicNames :
         Len(topics[t]) = (IF t = RetryTopic THEN hist.enqueued ELSE 0)
                          + Cardinality({d \in hist.delivered : d.topic = t})
    /\ InBatch =>
         \/ /\ DeliveredOfBatch = {}
            /\ committed = hist.committedAtStart
         \/ /\ fn.pc = "returned"
            /\ fn.lastPosition # NoOffset
            /\ DeliveredOfBatch = {Delivered(rec) : rec \in hist.produced}
            /\ committed = fn.lastPosition + 1
    /\ \A d \in hist.delivered : d.src < committed
    /\ \A o \in 0..(committed - 1) :
         IF Skippable(topics[RetryTopic][o + 1])
         THEN {d \in hist.delivered : d.src = o} = {}
         ELSE Cardinality({d \in hist.delivered : d.src = o}) = 1

\* C1 witness: after a batch that failed in a producer call, the next batch
\* has committed records it produced
C1_Witness ==
    /\ fn.pc = "returned"
    /\ fn.err = "nil"
    /\ hist.prevFirst # NoOffset
    /\ hist.produced # {}
    /\ DeliveredOfBatch = {Delivered(rec) : rec \in hist.produced}
    /\ committed = fn.lastPosition + 1

\* C2: a batch that fails in BeginTransaction, Produce,
\* GetConsumerGroupMetadata, SendOffsetsToTransaction or CommitTransaction
\* returns with the consumer back at the first offset it consumed, no open
\* transaction, nextBatch=false and the error, and nothing of it committed;
\* the next batch starts reading at that first offset.
C2_FailedBatchRollsBack ==
    /\ (fn.pc = "returned" /\ fn.err \in ProducerFaults) =>
         /\ fn.firstPosition # NoOffset
         /\ position = fn.firstPosition
         /\ tx.state = "none"
         /\ ~fn.nextBatch
         /\ DeliveredOfBatch = {}
         /\ committed = hist.committedAtStart
         /\ \A t \in {PrimaryTopic, DeadTopic} :
              Len(topics[t]) = Cardinality({d \in hist.delivered :
                                              d.topic = t /\ d.src < hist.committedAtStart})
    /\ (InBatch /\ hist.prevFirst # NoOffset /\ fn.firstPosition # NoOffset) =>
         fn.firstPosition = hist.prevFirst

\* C2 witness: a produce failed after an earlier produce of the batch succeeded
C2_Witness ==
    /\ fn.pc = "returned"
    /\ fn.err = "produce"
    /\ hist.produced # {}
    /\ fn.counters.consumed = 2

\* C3: a message with a valid original_topic and retries >= MessagesRetryCount
\* goes to the dead topic with its retries count, whatever its retry_time,
\* and is counted deadLettered; a batch produces each consumed message to at
\* most one topic.
C3_DeadLetterCutoff ==
    /\ \A rec \in hist.produced :
         Exhausted(Source(rec)) =>
            /\ rec.topic = DeadTopic
            /\ rec.kind = "deadLettered"
            /\ rec.msg.value = Source(rec).value
            /\ GetKafkaHeader(rec.msg, originalTopicHeader)
                 = GetKafkaHeader(Source(rec), originalTopicHeader)
            /\ ~GetKafkaIntHeader(rec.msg, retriesCountHeader).err
            /\ RetriesOf(rec.msg) = RetriesOf(Source(rec))
    /\ \A a, b \in hist.produced : a.src = b.src => a = b
    /\ (InBatch /\ tx.state = "open") => Len(tx.produced) = Cardinality(hist.produced)
    /\ (fn.pc \in {"loop", "finish"} \/ (fn.pc = "returned" /\ fn.err = "nil")) =>
         fn.counters.deadLettered
           = Cardinality({rec \in hist.produced : Exhausted(Source(rec))})

\* C3 witness: a message with no attempts left and a retry_time still in the
\* future is committed on the dead topic
C3_Witness ==
    \E rec \in hist.produced :
        /\ Exhausted(Source(rec))
        /\ rec.deadline = "future"
        /\ rec.topic = DeadTopic
        /\ Delivered(rec) \in hist.delivered
        /\ \E k \in 1..Len(topics[DeadTopic]) : topics[DeadTopic][k] = rec.msg

\* C4: a message with attempts left whose retry_time is in the future goes
\* back to the retry topic with the same retry_time bytes, original_topic and
\* retries count, and is counted notReadyReadded; the messages of the retry
\* topic that carry one payload all carry the same three headers, however
\* often the message was requeued.
C4_RequeuePreservesDeadline ==
    /\ \A rec \in hist.produced :
         (HasAttemptsLeft(Source(rec)) /\ rec.deadline = "future") =>
            /\ rec.topic = RetryTopic
            /\ rec.kind = "notReadyReadded"
            /\ rec.msg.value = Source(rec).value
            /\ retryTimeHeader \in DOMAIN rec.msg.headers
            /\ rec.msg.headers[retryTimeHeader] = Source(rec).headers[retryTimeHeader]
            /\ GetKafkaHeader(rec.msg, originalTopicHeader)
                 = GetKafkaHeader(Source(rec), originalTopicHeader)
            /\ RetriesOf(rec.msg) = RetriesOf(Source(rec))
    /\ \A j, k \in 1..Len(topics[RetryTopic]) :
         LET a == topics[RetryTopic][j]
             b == topics[RetryTopic][k]
         IN a.value = b.value =>
              /\ GetKafkaHeader(a, retryTimeHeader) = GetKafkaHeader(b, retryTimeHeader)
              /\ GetKafkaHeader(a, originalTopicHeader) = GetKafkaHeader(b, originalTopicHeader)
              /\ GetKafkaIntHeader(a, retriesCountHeader) = GetKafkaIntHeader(b, retriesCountHeader)
    /\ (fn.pc \in {"loop", "finish"} \/ (fn.pc = "returned" /\ fn.err = "nil")) =>
         /\ fn.counters.notReadyReadded
              = Cardinality({rec \in hist.produced : rec.kind = "notReadyReadded"})
         /\ fn.counters.retryScheduled
              = Cardinality({rec \in hist.produced : rec.kind = "retryScheduled"})

\* C4 witness: a message whose retry_time is written in the other spelling
\* has been requeued twice
C4_Witness ==
    \E a \in hist.delivered, b \in hist.produced :
        /\ a.topic = RetryTopic
        /\ b.kind = "notReadyReadded"
        /\ Source(b) = a.msg
        /\ Delivered(b) \in hist.delivered
        /\ b.msg.headers[retryTimeHeader] = IsoOther[RetryTimeInstant + 1]

\* C5: a message with attempts left whose retry_time is unset, unparseable or
\* in the past goes to its original topic with its payload, retries + 1 and no
\* retry_time header, and is counted retryScheduled.
C5_PastDueMessageRetried ==
    \A rec \in hist.produced :
        (HasAttemptsLeft(Source(rec)) /\ rec.deadline \in {"unset", "unparseable", "past"}) =>
           /\ rec.topic = GetKafkaHeader(Source(rec), originalTopicHeader)
           /\ rec.kind = "retryScheduled"
           /\ rec.msg.value = Source(rec).value
           /\ ~GetKafkaIntHeader(rec.msg, retriesCountHeader).err
           /\ RetriesOf(rec.msg) = RetriesOf(Source(rec)) + 1
           /\ retryTimeHeader \notin DOMAIN rec.msg.headers

\* C5 witness: a message that was requeued while its retry_time was ahead is
\* committed on its original topic once the retry_time is in the past
C5_Witness ==
    \E a \in hist.delivered, rec \in hist.produced :
        /\ a.topic = RetryTopic
        /\ Source(rec) = a.msg
        /\ rec.deadline = "past"
        /\ rec.topic = PrimaryTopic
        /\ Delivered(rec) \in hist.delivered
        /\ \E k \in 1..Len(topics[PrimaryTopic]) : topics[PrimaryTopic][k] = rec.msg

\* C5 as first stated: the same of every message with attempts left whose
\* retry_time is unset, unparseable or not in the future
C5_DueMessageRetried ==
    \A rec \in hist.produced :
        (HasAttemptsLeft(Source(rec)) /\ rec.deadline # "future") =>
           /\ rec.topic = GetKafkaHeader(Source(rec), originalTopicHeader)
           /\ rec.kind = "retryScheduled"
           /\ RetriesOf(rec.msg) = RetriesOf(Source(rec)) + 1
           /\ retryTimeHeader \notin DOMAIN rec.msg.headers

\* C6: a message without original_topic, or with a malformed retries header,
\* does not halt the batch: it is produced nowhere, the batch goes on, the
\* committed offset passes it, and the skipped counter of the batch, and of
\* the run, counts it.
C6_SkippedCounted ==
    /\ \A rec \in hist.produced : ~Skippable(Source(rec))
    /\ (fn.pc = "returned" /\ fn.err = "nil" /\ fn.lastPosition # NoOffset) =>
         committed = fn.lastPosition + 1
    /\ (fn.pc \in {"loop", "finish"} \/ (fn.pc = "returned" /\ fn.err = "nil")) =>
         fn.counters.skipped = hist.skippedSeen
    /\ (fn.pc = "returned" /\ fn.err = "nil" /\ ~fn.nextBatch) =>
         accumulate(run.counters, fn.counters).skipped = hist.runSkippedSeen

\* ------------------------------------------------ batch consumer: properties

\* at most one heartbeat goroutine: when paused is clear, none is left
OneHeartbeat == ~paused => heartbeat = "none"

\* C7: while paused is set, the batch function consumes no message: every
\* message it read, it read after the heartbeat loop took the resume token
\* and cleared paused.
C7_PauseInvariant == \A r \in bcHist.handed : ~r.paused

\* ----------------------------------------------- stream consumer: properties

\* the Consume calls that sink k has received
ConsumeCalls(k) == {sinks[k].consumed[j] : j \in 1..Len(sinks[k].consumed)}

\* the messages the loop has read and is done with
Handled ==
    {topics[PrimaryTopic][i] : i \in 1..streamPosition}
      \ (IF loop.pc \in {"load", "consume"} THEN {loop.message} ELSE {})

\* C8: a sink that a returned UpdateDestination replaced was completed once
\* and received no Consume that started after its Complete; a message read
\* after the return is consumed by a sink that is not replaced; and every
\* decodable message the loop read was passed to a sink.
C8_HotSwapCompleteness ==
    /\ \A k \in scHist.replaced :
         /\ sinks[k].completed = 1
         /\ \A c \in ConsumeCalls(k) : ~c.late
    /\ \A k \in SinkIds : \A c \in ConsumeCalls(k) : ~c.stale
    /\ \A m \in Handled :
         m.value.kind # "undecodable" =>
            \E k \in SinkIds : \E c \in ConsumeCalls(k) : c.id = m.value.id

\* ------------------------------------------------- retry pipeline: SpecLive

\* the messages of the retry topic that no batch has committed yet
Pending == {topics[RetryTopic][k] : k \in (committed + 1)..Len(topics[RetryTopic])}

\* every pending message waits for its retry_time: a batch would only requeue
Waiting == Pending # {} /\ \A message \in Pending : ~isTimeToRetry(message, now)

\* RunJob, once the retry_time of a pending message has passed
LiveRunStart ==
    /\ \E message \in Pending : isTimeToRetry(message, now)
    /\ RetryRunStart

\* the next call of the batch function, unless every pending message waits
LiveBatchCall ==
    /\ ~Waiting
    /\ RetryBatchCall({})

\* time passes while a pending message waits for its retry_time
LiveTick ==
    /\ \E message \in Pending : ~isTimeToRetry(message, now)
    /\ now' = now + 1
    /\ UNCHANGED <<topics, position, committed, tx, retired, retryBatchSize, fn, run, hist>>
    /\ UNCHANGED <<pauseVars, streamVars, ctorVars, optionVars, sizeVars>>

\* the stream consumer and the retry consumer of one destination, when every
\* call of the kafka client succeeds
NextLive ==
    \/ Publish
    \/ StreamLoopRead({})
    \/ StreamLoopLoad
    \/ StreamLoopConsume({})
    \/ StreamLoopFailed({})
    \/ LiveRunStart
    \/ LiveBatchCall
    \/ RetryBatchIteration({})
    \/ RetryBatchFinish({})
    \/ RetryBatchDone
    \/ LiveTick

\* the loops keep running, the job is run again and again, and time passes
FairLive ==
    /\ WF_vars(StreamLoopRead({}))
    /\ WF_vars(StreamLoopLoad)
    /\ WF_vars(StreamLoopConsume({}))
    /\ WF_vars(StreamLoopFailed({}))
    /\ WF_vars(LiveRunStart)
    /\ WF_vars(LiveBatchCall)
    /\ WF_vars(RetryBatchIteration({}))
    /\ WF_vars(RetryBatchFinish({}))
    /\ WF_vars(RetryBatchDone)
    /\ WF_vars(LiveTick)

SpecLive == InitRetry /\ [][NextLive]_vars /\ FairLive

\* RunJob and ConsumeAll lines 228-236: a run starts with the retryBatchSize
\* resolved from the destination's option and the default fraction
ResolvedRunStart ==
    /\ fn.pc = "idle"
    /\ ~retired
    /\ \E message \in Pending : isTimeToRetry(message, now)
    /\ \E option \in 0..RetryBatchSize, quarters \in Quarters :
         retryBatchSize' =
             Resolve(option, DefaultRetryBatchSize(RetryBatchSize, quarters))
    /\ fn' = [fn EXCEPT !.pc = "call"]
    /\ run' = [batchNumber |-> 1, counters |-> ZeroCounters]
    /\ UNCHANGED <<topics, position, committed, tx, now, retired, hist>>
    /\ UNCHANGED <<pauseVars, streamVars, ctorVars, optionVars, sizeVars>>

\* the two consumers of one destination, when every call of the kafka client
\* succeeds and each run resolves its retryBatchSize
NextRun ==
    \/ Publish
    \/ StreamLoopRead({})
    \/ StreamLoopLoad
    \/ StreamLoopConsume({})
    \/ StreamLoopFailed({})
    \/ ResolvedRunStart
    \/ LiveBatchCall
    \/ RetryBatchIteration({})
    \/ RetryBatchFinish({})
    \/ RetryBatchDone
    \/ LiveTick

\* the loops keep running, the job is run again and again, and time passes
FairRun ==
    /\ WF_vars(StreamLoopRead({}))
    /\ WF_vars(StreamLoopLoad)
    /\ WF_vars(StreamLoopConsume({}))
    /\ WF_vars(StreamLoopFailed({}))
    /\ WF_vars(ResolvedRunStart)
    /\ WF_vars(LiveBatchCall)
    /\ WF_vars(RetryBatchIteration({}))
    /\ WF_vars(RetryBatchFinish({}))
    /\ WF_vars(RetryBatchDone)
    /\ WF_vars(LiveTick)

SpecRun == InitRetry /\ [][NextRun]_vars /\ FairRun

\* the two consumers of one destination, when the reads, the sink and the
\* produces of the stream consumer may fail
NextPipeline ==
    \/ Publish
    \/ StreamLoopRead(StreamFaults)
    \/ StreamLoopLoad
    \/ StreamLoopConsume(StreamFaults)
    \/ StreamLoopFailed(StreamFaults)
    \/ LiveRunStart
    \/ LiveBatchCall
    \/ RetryBatchIteration({})
    \/ RetryBatchFinish({})
    \/ RetryBatchDone
    \/ LiveTick

SpecPipeline == InitRetry /\ [][NextPipeline]_vars

\* -------------------------------------------------- construction: properties

\* C9: a constructor over a topic with 2 or more partitions never subscribes
\* and starts neither the delivery-report loop nor the heartbeat loop; when
\* it has returned, it has returned no consumer but an error, and the error
\* is the invalid partition count whenever the partitions were counted.
C9_SinglePartitionGuard ==
    ctor.partitions >= 2 =>
       /\ ~ctor.subscribed
       /\ ~ctor.deliveryReports
       /\ heartbeat = "none"
       /\ ~paused
       /\ ctor.returned = "nil"
       /\ ctor.pc = "done" =>
            /\ ctor.err # "nil"
            /\ ctor.metadata # NoOffset => ctor.err = "invalid_partitions_count"
            /\ ctor.err = "invalid_partitions_count" => ~ctor.producerOpen

\* C9 witness: NewRetryConsumer over a topic with exactly 2 partitions has
\* returned the invalid partition count
C9_Witness ==
    /\ ctor.by = "NewRetryConsumer"
    /\ ctor.partitions = 2
    /\ ctor.pc = "done"
    /\ ctor.err = "invalid_partitions_count"
    /\ ctor.returned = "nil"
    /\ heartbeat = "none"

\* ------------------------------------------------ retry pipeline: properties

MessageIds == 1..MaxPublished

\* the copies of message id on a topic, in the order of the log
Copies(t, id) == SelectSeq(topics[t], LAMBDA m : m.value.id = id)

\* message id is published and no sink accepts it
Poison(id) ==
    \E k \in 1..Len(topics[PrimaryTopic]) :
       /\ topics[PrimaryTopic][k].value.id = id
       /\ topics[PrimaryTopic][k].value.kind \in {"rejected", "undecodable"}

\* message id is published and the sink accepts it
Good(id) ==
    \E k \in 1..Len(topics[PrimaryTopic]) :
       /\ topics[PrimaryTopic][k].value.id = id
       /\ topics[PrimaryTopic][k].value.kind = "good"

DeadLettered(id) == Copies(DeadTopic, id) # <<>>

Accepted(id) == \E k \in SinkIds : \E c \in ConsumeCalls(k) : c.id = id

\* the retries of the copies of a message never decrease: on the primary
\* topic the first copy carries none and each further copy one more, up to
\* MessagesRetryCount; on the retry topic they do not decrease along the log;
\* the dead topic holds at most one copy, with MessagesRetryCount retries
RetriesGrow ==
    \A id \in MessageIds :
       LET primary == Copies(PrimaryTopic, id)
           retry == Copies(RetryTopic, id)
           dead == Copies(DeadTopic, id)
       IN /\ \A k \in 1..Len(primary) : RetriesOf(primary[k]) = k - 1
          /\ Len(primary) <= MessagesRetryCount + 1
          /\ \A j, k \in 1..Len(retry) : j < k => RetriesOf(retry[j]) <= RetriesOf(retry[k])
          /\ \A k \in 1..Len(retry) : RetriesOf(retry[k]) < Len(primary)
          /\ Len(dead) <= 1
          /\ \A k \in 1..Len(dead) : RetriesOf(dead[k]) = MessagesRetryCount
          /\ Good(id) => Len(primary) = 1 /\ retry = <<>> /\ dead = <<>>

\* a dead-lettered message is produced to no topic again
DeadIsFinal ==
    \A id \in MessageIds :
       DeadLettered(id) => \A t \in TopicNames : Copies(t, id)' = Copies(t, id)

ExpectedFailed(message, clock) ==
    Msg(message.value,
        [h \in {retriesCountHeader, originalTopicHeader, retryTimeHeader} |->
            CASE h = retriesCountHeader -> Itoa(RetriesOf(message))
              [] h = originalTopicHeader -> PrimaryTopic
              [] h = retryTimeHeader -> ToISOFormat(RetryBackOffTime(clock, RetriesOf(message) + 1))])

\* the topic the failure path is to choose
ExpectedTopic(message) ==
    IF RetriesOf(message) >= MessagesRetryCount THEN DeadTopic ELSE RetryTopic

\* C11: a message that cannot be decoded, or that the sink rejects, enters the
\* failure path; the failure path appends one record to one topic, the retry
\* topic or, with MessagesRetryCount retries or more, the dead topic, carrying
\* the payload, retries, original_topic and retry_time; or the produce fails,
\* no topic changes and the message is counted lost; then the loop goes on.
C11_FailurePath ==
    [][/\ (loop.pc = "select" /\ streamPosition' # streamPosition
              /\ loop'.message.value.kind = "undecodable") => loop'.pc = "failed"
       /\ (loop.pc = "consume" /\ loop'.pc # "consume"
              /\ loop.message.value.kind = "rejected") => loop'.pc = "failed"
       /\ (loop.pc = "failed" /\ loop' # loop) =>
             /\ loop'.pc = "select"
             /\ streamPosition' = streamPosition
             /\ \/ /\ topics' = [topics EXCEPT ![ExpectedTopic(loop.message)] =
                                    Append(@, ExpectedFailed(loop.message, now))]
                   /\ scHist'.lost = scHist.lost
                \/ /\ topics' = topics
                   /\ scHist'.lost = scHist.lost + 1]_vars

\* C11 witness: the stream consumer has put a first failure on the retry
\* topic and a message out of retries on the dead topic, and has lost one
C11_Witness ==
    /\ \E k \in 1..Len(topics[RetryTopic]) : RetriesOf(topics[RetryTopic][k]) = 0
    /\ \E k \in 1..Len(topics[DeadTopic]) :
          RetriesOf(topics[DeadTopic][k]) = MessagesRetryCount
    /\ scHist.lost > 0
    /\ loop.pc = "select"


\* ------------------------------------------------ stream options: properties

\* what Get returns for an option, a set by its members
ValueOf(key, so, sets) ==
    IF OptionType(key) = "set" THEN [members |-> sets[Get(key, so).set]]
    ELSE Get(key, so)

\* the sequences that list a set of strings
ListsOf(members) ==
    {l \in {<<>>, <<"a", "b">>, <<"c">>} : Range(l) = members}

\* the values of an option's type and the forms a configuration gives each:
\* a number as a number or as its string, a bool as a bool or as its string,
\* a mode by its name, a set as the list of its members or, for a single
\* member, that string
Serializations(key) ==
    CASE OptionType(key) = "int" ->
            {<<IntV(n), IntV(n)>> : n \in {0, 2}}
            \cup {<<IntV(n), StrV(Itoa(n))>> : n \in {2}}
            \cup {<<IntV(tenths \div 10), FloatV(tenths)>> : tenths \in {20}}
      [] OptionType(key) = "float64" ->
            {<<FloatV(tenths), FloatV(tenths)>> : tenths \in {5, 20}}
            \cup {<<FloatV(FloatTenths[k]), StrV(FloatStrings[k])>> : k \in {2, 3}}
            \cup {<<FloatV(n * 10), IntV(n)>> : n \in {0, 2}}
      [] OptionType(key) = "bool" ->
            {<<BoolV(b), BoolV(b)>> : b \in BOOLEAN} \cup {<<BoolV(TRUE), StrV("true")>>}
      [] OptionType(key) = "string" ->
            {<<StrV(str), StrV(str)>> : str \in {"", "x", "stream", "2"}}
      [] OptionType(key) = "BulkMode" ->
            {<<Stream, StrV("stream")>>, <<Batch, StrV("batch")>>}
      [] OptionType(key) = "set" ->
            {<<[members |-> Range(l)], ListV(l)>> : l \in {<<>>, <<"a", "b">>, <<"c">>}}
            \cup {<<[members |-> {str}], StrV(str)>> : str \in {"a", "c", "x"}}
            \cup {<<[members |-> {}], StrV("")>>}
      [] OTHER ->
            {<<v, v>> : v \in SerializedValues}

\* the last ParseOption was given this name and this form and its mutator, if
\* any, has been applied to a fresh StreamOptions
ParsedOnFresh(key, serialized) ==
    /\ parsed.calls > 0
    /\ parsed.before = NewStreamOptions
    /\ parsed.name = key
    /\ parsed.serialized = serialized

\* the options a StreamOptions was given a mutator of
SetKeys(so) == {so.Options[k].key : k \in {j \in DOMAIN so.Options : so.Options[j].fn # "nothing"}}

RoundTrip(keys) ==
    \A key \in keys : \A pair \in Serializations(key) :
       ParsedOnFresh(key, pair[2]) =>
          /\ ~parsed.err
          /\ ValueOf(key, bags[1], heap) = pair[1]

UnsetIsDefault ==
    \A b \in DOMAIN bags : \A key \in OptionKeys \ SetKeys(bags[b]) :
       ValueOf(key, bags[b], heap) =
          IF OptionType(key) = "set" THEN [members |-> {}] ELSE DefaultValue(key)

\* the options that keep no value
PassThrough == {"functions", "streams"}

\* C12 as amended: every registered option but functions and streams gives
\* back the value that was parsed from its serialized form and applied to a
\* fresh StreamOptions; functions and streams give back nil whatever was
\* parsed; an option that was never set gives back its default value.
C12_OptionRoundTrip ==
    /\ RoundTrip(OptionKeys \ PassThrough)
    /\ \A key \in PassThrough : \A v \in SerializedValues :
          ParsedOnFresh(key, v) => ~parsed.err /\ ValueOf(key, bags[1], heap) = NilV
    /\ UnsetIsDefault

\* C12 witness: a batch size given as a string was parsed, applied to a
\* fresh StreamOptions and is what Get returns
C12_Witness ==
    /\ ParsedOnFresh("batchSize", StrV("2"))
    /\ Get("batchSize", bags[1]) = IntV(2)
    /\ Len(bags[1].Options) = 1

\* C12 as claimed: every registered option gives back the value that was
\* parsed from its serialized form and applied to a fresh StreamOptions, and
\* an option that was never set gives back its default value
C12_EveryOptionRoundTrip ==
    /\ RoundTrip(OptionKeys)
    /\ UnsetIsDefault


\* the primary key fields of the withPrimaryKey mutators of a sequence
PrimaryKeyFields(options) ==
    UNION {Range(options[k].pkFields) :
              k \in {j \in DOMAIN options : options[j].fn = "withPrimaryKey"}}

\* C13: the primary key of a StreamOptions is the union of the fields of the
\* primaryKey mutators applied to it, in the first StreamOptions and in the
\* one the recorded mutators are replayed on; the mutator parsed from the
\* empty string is recorded and changes no value; the two StreamOptions
\* share no set, and the default value stays empty.
C13_PrimaryKeyUnion ==
    /\ \A b \in DOMAIN bags :
          ValueOf("primaryKey", bags[b], heap).members = PrimaryKeyFields(bags[b].Options)
    /\ (parsed.calls > 0 /\ parsed.name = "primaryKey" /\ parsed.serialized = StrV("")) =>
          /\ ~parsed.err
          /\ bags[1].valuesMap = parsed.before.valuesMap
          /\ bags[1].Options = Append(parsed.before.Options, NoOption)
    /\ bags[2] # NewStreamOptions =>
          /\ \E n \in 0..Len(bags[1].Options) : bags[2].Options = SubSeq(bags[1].Options, 1, n)
          /\ Get("primaryKey", bags[1]).set = Get("primaryKey", bags[2]).set =>
                Get("primaryKey", bags[1]).set = DefaultSet
    /\ heap[DefaultSet] = {}

\* C13 witness: ["a","b"] and then "c" were parsed and applied, the primary
\* key is {a,b,c}, and the replay on a fresh StreamOptions gave the same
C13_Witness ==
    /\ bags[1].Options = <<PrimaryKeyClosure("primaryKey", <<"a", "b">>),
                           PrimaryKeyClosure("primaryKey", <<"c">>)>>
    /\ ValueOf("primaryKey", bags[1], heap).members = {"a", "b", "c"}
    /\ bags[2].Options = bags[1].Options
    /\ ValueOf("primaryKey", bags[2], heap).members = {"a", "b", "c"}
    /\ Get("primaryKey", bags[1]).set # Get("primaryKey", bags[2]).set


\* the last ParseOption was for the mode, given this value
ModeParsed(serialized) ==
    /\ parsed.calls > 0
    /\ parsed.name = "mode"
    /\ parsed.serialized = serialized

Strings == {v \in SerializedValues : TypeOf(v) = "string"}

\* C14 as amended: "stream" and "batch" parse to mutators that set the modes
\* stream and batch; every other string, and every value that is no string,
\* fails with a parse error and yields no mutator, and the StreamOptions is
\* left as it was.
C14_ModeParse ==
    /\ ModeParsed(StrV("stream")) =>
          ~parsed.err /\ parsed.option = SetOption("mode", Stream)
                      /\ Get("mode", bags[1]) = Stream
    /\ ModeParsed(StrV("batch")) =>
          ~parsed.err /\ parsed.option = SetOption("mode", Batch)
                      /\ Get("mode", bags[1]) = Batch
    /\ \A v \in SerializedValues \ {StrV("stream"), StrV("batch")} :
          ModeParsed(v) =>
             parsed.err /\ parsed.option = NilOption /\ bags[1] = parsed.before

\* C14 witness: a string that names no mode was parsed for the mode, after
\* the mode was set to batch, which it still is
C14_Witness ==
    /\ ModeParsed(StrV("x"))
    /\ parsed.err
    /\ parsed.calls = 2
    /\ Get("mode", bags[1]) = Batch

\* C14 as claimed: "stream" and "batch" parse to the modes stream and batch,
\* every other string parses to a mutator that sets the mode to unknown, and
\* a value that is no string fails with a parse error and yields no mutator
C14_UnknownModeParses ==
    /\ ModeParsed(StrV("stream")) =>
          ~parsed.err /\ parsed.option = SetOption("mode", Stream)
    /\ ModeParsed(StrV("batch")) =>
          ~parsed.err /\ parsed.option = SetOption("mode", Batch)
    /\ \A v \in Strings \ {StrV("stream"), StrV("batch")} :
          ModeParsed(v) =>
             ~parsed.err /\ parsed.option = SetOption("mode", Unknown)
                         /\ Get("mode", bags[1]) = Unknown
    /\ \A v \in SerializedValues \ Strings :
          ModeParsed(v) => parsed.err /\ parsed.option = NilOption


\* ------------------------------------------------ a new consumer: properties

\* NewRetryConsumer has returned a consumer
RetryConsumerBorn ==
    ctor.pc = "done" /\ ctor.by = "NewRetryConsumer" /\ ctor.returned = "consumer"

\* C15: once NewRetryConsumer has returned a consumer and until the first
\* ConsumeAll, the consumer is not retired, idle and paused, a heartbeat loop
\* runs, the partition is paused whenever it is assigned, and no message of
\* the topic has been read by the batch function or by the heartbeat loop.
C15_BornPaused ==
    RetryConsumerBorn =>
       /\ ~retired
       /\ idle
       /\ paused
       /\ heartbeat # "none"
       /\ consumer.assigned => consumer.paused
       /\ bcHist.consumed = 0
       /\ closed = 0

\* C15 witness: the new retry consumer has its partition assigned and
\* paused, a message waits on the topic, and the heartbeat loop is reading
C15_Witness ==
    /\ RetryConsumerBorn
    /\ consumer.assigned
    /\ consumer.paused
    /\ heartbeat = "read"
    /\ Len(topics[PrimaryTopic]) > 0


\* --------------------------------------------- pause and resume: properties

\* the heartbeat loop is in its for loop
HeartbeatRuns == heartbeat \in {"check", "select", "read"}

\* C16: idle is false from the start of a run to its return, and whenever no
\* run is under way on a consumer that is not retired, the consumer is idle
\* and paused and its heartbeat loop runs.
C16_RunLeavesPaused ==
    /\ job.pc \in {"lease", "loop", "send", "batch"} => ~idle
    /\ (job.pc = "idle" /\ ~retired) => idle /\ paused /\ HeartbeatRuns


\* C17: the bus client has one reader at a time: the heartbeat loop is not in
\* its read of the consumer while the batch function of a run is in its own,
\* also in a run whose resume failed.
C17_OneReader == ~(job.pc = "batch" /\ heartbeat = "read")


C19_RetiredCloses == retired ~> (closed > 0)


\* C20: when the destination is missing, ConsumeAll retires the consumer and
\* goes to its return with the error; from there to the end of the run it
\* neither resumes nor runs a batch, no message is consumed and no lease is
\* taken or released. A destination that is there is leased.
C20_DestinationMissing ==
    [][/\ (job.pc = "lease" /\ job'.pc # "lease") =>
             \/ job'.pc = "loop" /\ job'.err = "nil" /\ job'.leased /\ leases' = leases + 1
             \/ /\ job'.pc = "return" /\ job'.err = "notFound" /\ ~job'.leased
                /\ retired'
                /\ leases' = leases
                /\ bcHist' = bcHist
       /\ job.err = "notFound" =>
             /\ job'.err = "notFound" => job'.pc \in {"return", "pause", "close", "closeConsumer", "idle"}
             /\ job' # job =>
                   /\ leases' = leases
                   /\ bcHist'.consumed = bcHist.consumed
                   /\ bcHist'.handed = bcHist.handed
                   /\ bcHist'.offset = bcHist.offset
             /\ ~job.leased
             /\ retired]_vars

\* C20 witness: a run consumed a message, the next one found no destination
\* and has returned, and the consumer is retired and closed
C20_Witness ==
    /\ job.err = "notFound"
    /\ job.pc = "idle"
    /\ retired
    /\ leases = 0
    /\ bcHist.consumed > 0
    /\ closed > 0


\* C21: the destination's leases are balanced: a run holds one lease from
\* LeaseDestination to its return and none before or after, whatever way the
\* run ends, the count is never negative, and a step changes it by one.
C21_LeaseBalance ==
    [][/\ leases >= 0
       /\ leases = (IF job.leased THEN 1 ELSE 0)
       /\ job.leased => job.pc \in {"loop", "send", "batch", "return"}
       /\ job.pc \in {"idle", "lease", "pause", "close", "closeConsumer"} => leases = 0
       /\ leases' # leases =>
             \/ job.pc = "lease" /\ leases' = leases + 1
             \/ job.pc = "return" /\ leases' = leases - 1]_vars

\* C21 witness: a run that consumed a message and then found the consumer
\* retired has returned, and the lease count is what it was before the run
C21_Witness ==
    /\ job.pc = "idle"
    /\ job.err = "nil"
    /\ retired
    /\ closed > 0
    /\ bcHist.consumed > 0
    /\ leases = 0


\* C22: a call of resume() that ended well ended after the heartbeat loop took
\* its token; and a resume timeout ends the run: no batch function is called
\* after it and no message is consumed.
C22_ResumeRendezvous ==
    /\ (job.pc = "batch" /\ job.resume = "resumed") =>
          heartbeat \in {"accepted", "none"}
    /\ job.resume = "timeout" => job.pc # "batch"
    /\ \A r \in bcHist.handed : r.resume # "timeout"


\* C23: a rebalance that assigns the partition leaves it bus-paused if paused
\* is set and running if not; and whenever paused is set, the assigned
\* partition is bus-paused.
C23_AssignedPaused ==
    /\ [][(~consumer.assigned /\ consumer'.assigned) =>
             consumer'.paused = paused]_vars
    /\ [](paused /\ consumer.assigned => consumer.paused)


\* the numbers of the messages the batch function has read
HandedNumbers == {r.n : r \in bcHist.handed}

\* C24: a message the heartbeat loop reads is not lost and not reclassified
\* during the pause: the read leaves the fetch position on that message, so
\* that it is the next one a batch reads; no message before one that a batch
\* read, or before the fetch position, was passed over; and a batch reads a
\* message that slipped only in a run that has resumed the consumer.
C24_SlippedKept ==
    /\ [][bcHist'.slipped # bcHist.slipped =>
             /\ bcHist'.slipped = bcHist.slipped \cup {bcHist.offset + 1}
             /\ bcHist'.offset = bcHist.offset]_vars
    /\ [](\A n \in 1..bcHist.offset : n \in HandedNumbers)
    /\ [](\A r \in bcHist.handed :
             r.n \in bcHist.slipped => r.resume \in {"resumed", "skipped"})


\* floor(maxBatchSize x default retry fraction)
RetryFraction == (sizes.maxBatchSize * sizes.quarters) \div 4

Larger(a, b) == IF a >= b THEN a ELSE b

\* C25 as claimed: the resolved sizes are the larger of the option and the
\* default, for every combination of options and defaults.
C25_LargerOfOptionAndDefault ==
    sizes.pc = "loop" =>
      /\ sizes.maxBatchSize = Larger(sizes.batchSize, sizes.BatchRunnerDefaultBatchSize)
      /\ sizes.resolvedRetryBatchSize = Larger(sizes.retryBatchSize, RetryFraction)

\* C25: maxBatchSize is the batchSize option where that is greater than 0 and
\* the runtime default where it is not; retryBatchSize is the retryBatchSize
\* option where that is greater than 0 and floor(maxBatchSize x default retry
\* fraction) where it is not.
C25_OptionOrDefault ==
    sizes.pc = "loop" =>
      /\ sizes.batchSize > 0 => sizes.maxBatchSize = sizes.batchSize
      /\ sizes.batchSize <= 0 => sizes.maxBatchSize = sizes.BatchRunnerDefaultBatchSize
      /\ sizes.retryBatchSize > 0 => sizes.resolvedRetryBatchSize = sizes.retryBatchSize
      /\ sizes.retryBatchSize <= 0 => sizes.resolvedRetryBatchSize = RetryFraction

\* C25 witness: both options are set, and smaller than the defaults
C25_Witness ==
    /\ sizes.pc = "loop"
    /\ 0 < sizes.batchSize
    /\ sizes.batchSize < sizes.BatchRunnerDefaultBatchSize
    /\ sizes.maxBatchSize = sizes.batchSize
    /\ 0 < sizes.retryBatchSize
    /\ sizes.retryBatchSize < (sizes.BatchRunnerDefaultBatchSize * sizes.quarters) \div 4
    /\ sizes.resolvedRetryBatchSize = sizes.retryBatchSize


C27_AccumulateEveryCounter ==
    /\ [](\A f \in CounterFields :
             /\ totals.bs[f] = totals.sum[f]
             /\ totals.bs[f] >= 0)
    /\ [][\A f \in CounterFields : totals'.bs[f] >= totals.bs[f]]_vars


\* the loop leaves its select for good
LoopCloses == loop.pc # "done" /\ loop'.pc = "done"

\* C28: once closed, the loop ends after the message it is at, with one call
\* on the sink that is current then: Abort if the last message it processed
\* failed, Complete if that message did well or there was none, whatever the
\* reads after it returned; and it calls nothing after that.
C28_CloseCompletesOrAborts ==
    /\ [][LoopCloses =>
             /\ scClosed
             /\ loop.pc = "select"
             /\ sinks' = [sinks EXCEPT ![stream] =
                            IF scHist.last = "failed"
                            THEN [@ EXCEPT !.aborted = @ + 1]
                            ELSE [@ EXCEPT !.completed = @ + 1]]]_vars
    /\ [][loop.pc = "done" => loop' = loop]_vars


\* C29: every run of the retry consumer returns, whatever retryBatchSize it
\* resolved and whatever the retry topic holds.
C29_RunTerminates == (fn.pc # "idle") ~> (fn.pc = "idle")


\* C30: when the retry batch function has returned, with or without an error
\* or because the consumer was retired, the producer has no open transaction:
\* the one the batch began is committed or aborted.
C30_NoOpenTransaction ==
    fn.pc \in {"returned", "idle", "call"} => tx.state # "open"


\* C31: a batch consumer shuts down at most once: bc.closed is closed at most
\* once, and Close is called at most once on the kafka consumer, whichever of
\* ConsumeAll's pause() and the heartbeat loop gets to close().
C31_ClosedOnce ==
    /\ bcHist.channel <= 1
    /\ closed <= 1


\* C32: while the message loop can still call Consume, Complete or Abort on a
\* sink, the destination that made the sink holds a lease of this consumer:
\* the current sink's until the loop has ended, and that of the sink the loop
\* has loaded for its Consume.
C32_SinkLeased ==
    /\ loop.pc # "done" => destLeases[stream] >= 1
    /\ loop.pc = "consume" => destLeases[loop.sink] >= 1


\* a call of UpdateDestination returns the CreateStream error
UpdateFails ==
    /\ update.pc = "idle"
    /\ scHist'.updates = scHist.updates + 1
    /\ update'.err = "createStream"

\* C33: an UpdateDestination that fails to create the new sink leaves the
\* consumer as it was: the current sink and destination, no Complete on the
\* previous sink, and the lease counts of the previous and the new
\* destination.
C33_FailedUpdateUnchanged ==
    [][UpdateFails =>
          /\ stream' = stream
          /\ destination' = destination
          /\ sinks' = sinks
          /\ destLeases' = destLeases]_vars

====
